---- MODULE Spec2Model ----
(***************************************************************************)
(* State machine of the regional node's signaling layer (SignalingServer), *)
(* its task distribution and reward engine (ValidatorSystem), the health   *)
(* and failover coordinator of the global validators                       *)
(* (GlobalNodeCoordinator) and the DHT (DHTNetwork).                       *)
(*                                                                         *)
(* Every message handler is one atomic action: the handlers are async, but *)
(* nothing they await suspends on I/O (forwardMessage and updateRegionInfo *)
(* contain no awaited I/O), so a handler runs to its end before the next   *)
(* socket event or timer callback is dispatched.                           *)
(*                                                                         *)
(* JavaScript Maps iterate in insertion order and the code depends on it   *)
(* (slice(0, maxNodes), Array.find, values()[0]); a Map keyed by peer id   *)
(* is therefore a sequence of records with distinct peerId fields.         *)
(* Objects are modelled by value: every join builds a fresh ConnectedPeer, *)
(* and every task message carries a freshly parsed Task.                   *)
(***************************************************************************)
EXTENDS Integers, Sequences, FiniteSets, TLC

VARIABLES
    wsOpen,               \* connection handle -> readyState is OPEN
    peers,                \* SignalingServer.peers
    regions,              \* SignalingServer.regions: region -> [peers, validators]
    globalValidators,     \* ValidatorSystem.globalValidators
    regionalValidators,   \* ValidatorSystem.regionalValidators: region -> map
    individualNodes,      \* ValidatorSystem.individualNodes: region -> map
    regionKeys,           \* key order of regionalValidators / individualNodes
    activeTasks,          \* ValidatorSystem.activeTasks: task id -> Task
    taskTimeouts,         \* ValidatorSystem.taskTimeouts: task id -> timer handle
    timers,               \* timers armed in the event loop (setTimeout not yet fired or cleared)
    rewardDistributions,  \* ValidatorSystem.rewardDistributions: task id -> ledger
    sent,                 \* messages put on the wire by the last handler
    wire,                 \* whether the wire is observed (sent is recorded)
    globalNodes,          \* GlobalNodeCoordinator.globalNodes
    healthMetrics,        \* GlobalNodeCoordinator.healthMetrics: node id -> GlobalNodeHealth
    failoverHistory,      \* GlobalNodeCoordinator.failoverHistory
    coordinatorActiveTasks, \* GlobalNodeCoordinator.activeTasks
    nodes,                \* DHTNetwork.nodes: the routing table
    data,                 \* DHTNetwork.data: key -> value
    directConnections,    \* DHTNetwork.directConnections
    activeConnections,    \* DHTNetwork.activeConnections: ids holding a connection
    connected,            \* DHTNetwork.connected
    closing,              \* direct connections whose socket this node closed, 'close' event pending
    requests,             \* DHTNetwork.sendMessage calls in order: promise, listener and timer
    returned              \* outcome of the last DHTNetwork call

vars == <<wsOpen, peers, regions, globalValidators, regionalValidators,
          individualNodes, regionKeys, activeTasks, taskTimeouts, timers,
          rewardDistributions, sent, wire, globalNodes, healthMetrics,
          failoverHistory, coordinatorActiveTasks, nodes, data, directConnections,
          activeConnections,
          connected, closing, requests, returned>>

(***************************************************************************)
(* Bounds of the model                                                     *)
(***************************************************************************)
MaxAccepted == 2   \* longest acceptedNodes list (the code never bounds it)
MaxTimers == 2     \* most timers armed at once
MaxAssigned == 4   \* longest assignedNodes list a redistributed task carries

(***************************************************************************)
(* Data model (types.ts) and configuration (config.ts)                     *)
(***************************************************************************)
NodeType == {"individual", "regional_node", "global_node"}
NodeTier == {"inference", "aggregator", "training", "feedback"}
TaskType == {"compute", "train", "process", "aggregate", "store",
             "validate", "verify", "dispute", "report", "update"}

TierReq(tiers, minReward, validatorShare) ==
    [tiers |-> tiers, minReward |-> minReward, validatorShare |-> validatorShare]

TASK_TIER_REQUIREMENTS ==
    [t \in TaskType |->
        CASE t = "compute"   -> TierReq({"training", "feedback"}, 100, 10)
          [] t = "train"     -> TierReq({"training", "feedback"}, 100, 10)
          [] t = "process"   -> TierReq({"aggregator", "training", "feedback"}, 50, 10)
          [] t = "aggregate" -> TierReq({"aggregator", "training", "feedback"}, 50, 10)
          [] t = "store"     -> TierReq(NodeTier, 20, 5)
          [] t = "validate"  -> TierReq({"aggregator", "training", "feedback"}, 50, 10)
          [] t = "verify"    -> TierReq({"training", "feedback"}, 75, 10)
          [] t = "dispute"   -> TierReq({"feedback"}, 100, 15)
          [] t = "report"    -> TierReq({"aggregator", "training", "feedback"}, 30, 5)
          [] t = "update"    -> TierReq({"training", "feedback"}, 50, 10)]

regionalTokenRequirement == 1000
globalTokenRequirement == 5000
maxTaskDuration == 86400
minTaskDuration == 60
maxNodesPerTask == 100

Regions == {"r1", "r2"}
Sockets == {"w1", "w2", "w3", "w4", "w5", "w6"}
NoSocket == "none"

(***************************************************************************)
(* Amounts are JavaScript numbers; the model keeps them exact as integers  *)
(* counted in 1/Unit of a token, Unit being divisible by every divisor the *)
(* input sets can produce.                                                 *)
(***************************************************************************)
Unit == 2 * 2 * 3 * 5

(***************************************************************************)
(* Insertion-ordered maps keyed by peerId                                  *)
(***************************************************************************)
Has(m, id) == \E i \in 1..Len(m) : m[i].peerId = id
Get(m, id) == m[CHOOSE i \in 1..Len(m) : m[i].peerId = id]
MapSet(m, r) ==
    IF Has(m, r.peerId)
    THEN [i \in 1..Len(m) |-> IF m[i].peerId = r.peerId THEN r ELSE m[i]]
    ELSE Append(m, r)
MapDelete(m, id) == SelectSeq(m, LAMBDA r : r.peerId # id)
Keys(m) == {m[i].peerId : i \in 1..Len(m)}
Elems(s) == {s[i] : i \in 1..Len(s)}
Includes(s, x) == \E i \in 1..Len(s) : s[i] = x
Without(s, x) == SelectSeq(s, LAMBDA y : y # x)

RECURSIVE Flatten(_)
Flatten(ss) == IF ss = <<>> THEN <<>> ELSE Head(ss) \o Flatten(Tail(ss))

\* Maps whose iteration order the code never depends on: functions on the key set
Put(f, k, v) == [x \in (DOMAIN f) \cup {k} |-> IF x = k THEN v ELSE f[x]]
Drop(f, S) == [x \in (DOMAIN f) \ S |-> f[x]]
EmptyMap == [x \in {} |-> 0]

(***************************************************************************)
(* Outbound messages.  to: the connection handle written to; peer: the     *)
(* peer the message was addressed to ("" for a reply to a raw connection); *)
(* ref: task id, peer id or error text; amount: reward carried.            *)
(* A send on an OPEN socket can throw; f names the socket whose send()     *)
(* throws during the handler (NoSocket: none does).                        *)
(***************************************************************************)
Msg(to, peer, type, ref, amount) ==
    [to |-> to, peer |-> peer, type |-> type, ref |-> ref, amount |-> amount]

FirstFail(msgs, f) ==
    IF \E i \in 1..Len(msgs) : msgs[i].to = f
    THEN CHOOSE i \in 1..Len(msgs) :
            msgs[i].to = f /\ \A j \in 1..(i - 1) : msgs[j].to # f
    ELSE Len(msgs) + 1
Delivered(msgs, f) == {msgs[i] : i \in 1..(FirstFail(msgs, f) - 1)}
Threw(msgs, f) == FirstFail(msgs, f) <= Len(msgs)

\* SignalingServer.sendMessage: skipped unless OPEN, a throwing send is swallowed
sendMessage(ws, type, ref, f) ==
    IF ws \in Sockets /\ wsOpen[ws] /\ ws # f
    THEN {Msg(ws, "", type, ref, 0)} ELSE {}
sendError(ws, text, f) == sendMessage(ws, "error", text, f)

\* what the handler sent is recorded in specifications that observe the wire
Send(msgs) ==
    /\ sent' = IF wire THEN msgs ELSE {}
    /\ wire' = wire

(***************************************************************************)
(* Peers.  A ConnectedPeer by value: the PeerInfo fields the handlers read, *)
(* the connection handle, and of the status record the online flag and the *)
(* active-task count (handleJoin sets online = true, activeTasks = 0).     *)
(***************************************************************************)
ConnectedPeer(m, ws) ==
    [peerId |-> m.peerId, nodeType |-> m.nodeType, nodeTier |-> m.nodeTier,
     region |-> m.region, ws |-> ws, online |-> TRUE, activeTasks |-> 0]

\* the eligibility test without the token thresholds
validateValidatorEligibility_AnyBalance(nodeTier, validatorType, tokenBalance) ==
    IF validatorType = "regional_node"
    THEN nodeTier \in {"aggregator", "training"}
    ELSE IF validatorType = "global_node"
    THEN nodeTier \in {"training", "feedback"}
    ELSE FALSE

validateValidatorEligibility(nodeTier, validatorType, tokenBalance) ==
    IF validatorType = "regional_node"
    THEN nodeTier \in {"aggregator", "training"} /\ tokenBalance >= regionalTokenRequirement
    ELSE IF validatorType = "global_node"
    THEN nodeTier \in {"training", "feedback"} /\ tokenBalance >= globalTokenRequirement
    ELSE FALSE

(***************************************************************************)
(* Tasks.  A task message carries the Task as its sender serialised it; a  *)
(* submitter's task has the initial status.  startTime and completionTime  *)
(* are kept as "is set" flags: the elapsed time of a completion report is  *)
(* an input of the report's handler.                                       *)
(***************************************************************************)
InitialStatus ==
    [state |-> "pending", assignedNodes |-> <<>>, acceptedNodes |-> <<>>,
     startTime |-> FALSE, completionTime |-> FALSE, error |-> ""]

\* message.task: the status is the one the message carries, the initial one
\* for a task message that was written by its submitter
Task(m) ==
    [taskId |-> m.taskId, type |-> m.type, minTier |-> m.minTier,
     total |-> m.total, perNode |-> m.perNode, validatorShare |-> m.validatorShare,
     penaltyRate |-> m.penaltyRate, estimatedDuration |-> m.estimatedDuration,
     maxNodes |-> m.maxNodes, gpuRequired |-> m.gpuRequired,
     submitter |-> m.submitter,
     status |-> IF "status" \in DOMAIN m THEN m.status ELSE InitialStatus]

\* the policy test without the comparison of the validator share
validateTaskRequirements_AnyShare(task) ==
    LET tierReqs == TASK_TIER_REQUIREMENTS[task.type] IN
    /\ task.minTier \in tierReqs.tiers
    /\ task.total >= tierReqs.minReward
    /\ task.estimatedDuration >= minTaskDuration
    /\ task.estimatedDuration <= maxTaskDuration
    /\ task.maxNodes <= maxNodesPerTask

validateTaskRequirements(task) ==
    LET tierReqs == TASK_TIER_REQUIREMENTS[task.type] IN
    /\ task.minTier \in tierReqs.tiers
    /\ task.total >= tierReqs.minReward
    /\ task.validatorShare = tierReqs.validatorShare
    /\ task.estimatedDuration >= minTaskDuration
    /\ task.estimatedDuration <= maxTaskDuration
    /\ task.maxNodes <= maxNodesPerTask

getMaxTasksForTier(tier) ==
    CASE tier = "inference" -> 5
      [] tier = "aggregator" -> 10
      [] tier = "training" -> 15
      [] tier = "feedback" -> 20

\* the input tasks carry no minStorage / minMemory (both optional)
isNodeEligibleForTask(node, task) ==
    /\ node.nodeTier \in TASK_TIER_REQUIREMENTS[task.type].tiers
    /\ ~(task.gpuRequired /\ node.nodeTier \notin {"training", "feedback"})
    /\ ~(node.activeTasks >= getMaxTasksForTier(node.nodeTier))

\* total * (1 - validatorShare / 100) / nodeCount, in 1/Unit tokens
\* the node share of the reward, not divided among the nodes
calculateNodeReward_Undivided(task, nodeCount) ==
    (task.total * Unit * (100 - task.validatorShare)) \div 100

calculateNodeReward(task, nodeCount) ==
    (task.total * Unit * (100 - task.validatorShare)) \div (100 * nodeCount)

\* stable sort by activeTasks ascending (completedTasks is 0 for every peer
\* of the model), first element
selectRegionalValidator(validators) ==
    validators[CHOOSE i \in 1..Len(validators) :
        /\ \A j \in 1..Len(validators) :
              validators[i].activeTasks <= validators[j].activeTasks
        /\ \A j \in 1..(i - 1) :
              validators[j].activeTasks > validators[i].activeTasks]

PoolSeq(pool) == Flatten([i \in 1..Len(regionKeys) |-> pool[regionKeys[i]]])

\* findPeer: a sequence holding the peer found, empty when there is none
findPeer(peerId) ==
    IF Has(globalValidators, peerId) THEN <<Get(globalValidators, peerId)>>
    ELSE IF Has(PoolSeq(regionalValidators), peerId)
    THEN <<Get(PoolSeq(regionalValidators), peerId)>>
    ELSE IF Has(PoolSeq(individualNodes), peerId)
    THEN <<Get(PoolSeq(individualNodes), peerId)>>
    ELSE <<>>

getRegionalValidatorForNode(region) ==
    IF regionalValidators[region] = <<>> THEN <<>>
    ELSE <<Head(regionalValidators[region])>>

RECURSIVE RegionalValidatorsOf(_, _)
RegionalValidatorsOf(nodeIds, validators) ==
    IF nodeIds = <<>> THEN validators
    ELSE LET nodePeer == findPeer(Head(nodeIds))
             rv == IF nodePeer = <<>> THEN <<>>
                   ELSE getRegionalValidatorForNode(nodePeer[1].region)
         IN RegionalValidatorsOf(Tail(nodeIds),
                IF rv # <<>> /\ ~Includes(validators, rv[1])
                THEN Append(validators, rv[1]) ELSE validators)

getTaskValidators(task) ==
    RegionalValidatorsOf(task.status.assignedNodes,
        IF Has(globalValidators, task.submitter)
        THEN <<Get(globalValidators, task.submitter)>> ELSE <<>>)

\* forwardMessage: the message a peer is sent, none unless its socket is OPEN
forwardMessage(peer, type, ref, amount) ==
    IF wsOpen[peer.ws] THEN <<Msg(peer.ws, peer.peerId, type, ref, amount)>> ELSE <<>>

(***************************************************************************)
(* Initial state: every component constructed, nothing connected           *)
(***************************************************************************)
ConstructedWith(tracked) ==
    /\ coordinatorActiveTasks = tracked
    /\ wsOpen = [w \in Sockets |-> TRUE]
    /\ peers = <<>>
    /\ regions = [r \in Regions |-> [peers |-> {}, validators |-> {}]]
    /\ globalValidators = <<>>
    /\ regionalValidators = [r \in Regions |-> <<>>]
    /\ individualNodes = [r \in Regions |-> <<>>]
    /\ regionKeys = <<>>
    /\ activeTasks = EmptyMap
    /\ taskTimeouts = EmptyMap
    /\ timers = {}
    /\ rewardDistributions = EmptyMap
    /\ sent = {}
    /\ globalNodes = <<>>
    /\ healthMetrics = EmptyMap
    /\ failoverHistory = <<>>
    /\ nodes = <<>>
    /\ data = EmptyMap
    /\ directConnections = <<>>
    /\ activeConnections = {}
    /\ connected = FALSE
    /\ closing = {}
    /\ requests = <<>>
    /\ returned = [op |-> "none"]

\* no method of GlobalNodeCoordinator writes its activeTasks: the table is
\* what it was given at construction, empty in the class as it stands
Constructed == ConstructedWith(<<>>)

Init == Constructed /\ wire = TRUE
InitQuiet == Constructed /\ wire = FALSE

RegistryUnchanged ==
    UNCHANGED <<peers, regions, globalValidators, regionalValidators,
                individualNodes, regionKeys>>
TasksUnchanged == UNCHANGED <<activeTasks, taskTimeouts, timers, rewardDistributions>>
CoordinatorUnchanged ==
    UNCHANGED <<globalNodes, healthMetrics, failoverHistory, coordinatorActiveTasks>>
DhtUnchanged ==
    UNCHANGED <<nodes, data, directConnections, activeConnections, connected,
                closing, requests, returned>>
\* the signaling server and the task engine are the only components running
ServerOnly == CoordinatorUnchanged /\ DhtUnchanged

(***************************************************************************)
(* ValidatorSystem: pools                                                  *)
(* A region absent from the Maps behaves in every handler like a region    *)
(* with an empty Map, so the Maps are total on Regions; regionKeys keeps   *)
(* the order in which addNode created the regions.                         *)
(***************************************************************************)
addNode(peer) ==
    /\ regionKeys' = IF Includes(regionKeys, peer.region) THEN regionKeys
                     ELSE Append(regionKeys, peer.region)
    /\ globalValidators' =
          IF peer.nodeType = "global_node" THEN MapSet(globalValidators, peer)
          ELSE globalValidators
    /\ regionalValidators' =
          IF peer.nodeType = "regional_node"
          THEN [regionalValidators EXCEPT ![peer.region] = MapSet(@, peer)]
          ELSE regionalValidators
    /\ individualNodes' =
          IF peer.nodeType = "individual"
          THEN [individualNodes EXCEPT ![peer.region] = MapSet(@, peer)]
          ELSE individualNodes

\* handleNodeFailure without the test for an empty assignedNodes
handleNodeFailure_NeverFails(task, nodeId) ==
    [task EXCEPT !.status.assignedNodes = Without(@, nodeId),
                 !.status.acceptedNodes = Without(@, nodeId)]

\* handleNodeFailure that leaves acceptedNodes alone
handleNodeFailure_KeepsAccepted(task, nodeId) ==
    LET assigned == Without(task.status.assignedNodes, nodeId)
    IN IF assigned = <<>>
       THEN [task EXCEPT !.status.assignedNodes = assigned,
                         !.status.state = "failed",
                         !.status.error = "All assigned nodes failed"]
       ELSE [task EXCEPT !.status.assignedNodes = assigned]

\* handleNodeFailure on one task
handleNodeFailure(task, nodeId) ==
    LET assigned == Without(task.status.assignedNodes, nodeId)
        accepted == Without(task.status.acceptedNodes, nodeId)
    IN IF assigned = <<>>
       THEN [task EXCEPT !.status.assignedNodes = assigned,
                         !.status.acceptedNodes = accepted,
                         !.status.state = "failed",
                         !.status.error = "All assigned nodes failed"]
       ELSE [task EXCEPT !.status.assignedNodes = assigned,
                         !.status.acceptedNodes = accepted]

\* cleanupTask, for every task id of S
cleanupTask(S) ==
    /\ timers' = timers \ {[id |-> taskTimeouts[k], taskId |-> k] :
                              k \in S \cap DOMAIN taskTimeouts}
    /\ taskTimeouts' = Drop(taskTimeouts, S)
    /\ rewardDistributions' = Drop(rewardDistributions, S)

removeNode(peerId, nodeType, region) ==
    LET hit == {k \in DOMAIN activeTasks :
                   Includes(activeTasks[k].status.assignedNodes, peerId)}
        after == [k \in DOMAIN activeTasks |->
                     IF k \in hit THEN handleNodeFailure(activeTasks[k], peerId)
                     ELSE activeTasks[k]]
    IN /\ activeTasks' = after
       /\ cleanupTask({k \in hit : after[k].status.assignedNodes = <<>>})
       /\ globalValidators' =
             IF nodeType = "global_node" THEN MapDelete(globalValidators, peerId)
             ELSE globalValidators
       /\ regionalValidators' =
             IF nodeType = "regional_node"
             THEN [regionalValidators EXCEPT ![region] = MapDelete(@, peerId)]
             ELSE regionalValidators
       /\ individualNodes' =
             IF nodeType = "individual"
             THEN [individualNodes EXCEPT ![region] = MapDelete(@, peerId)]
             ELSE individualNodes
       /\ UNCHANGED regionKeys

(***************************************************************************)
(* SignalingServer: join, leave, disconnect, inactivity sweep              *)
(***************************************************************************)
\* broadcastToPeerGroup over the registry reg: the sends, in registry order
broadcastToPeerGroup(reg, open, peerId, region, type) ==
    LET group == SelectSeq(reg, LAMBDA p : p.region = region /\ p.peerId # peerId
                                              /\ open[p.ws])
    IN [i \in 1..Len(group) |-> Msg(group[i].ws, group[i].peerId, type, peerId, 0)]

updateRegionInfo(region, peerId, nodeType) ==
    regions' = [regions EXCEPT
                   ![region].peers = @ \cup {peerId},
                   ![region].validators =
                       IF nodeType # "individual" THEN @ \cup {peerId} ELSE @]

\* a join message m arrives on connection ws
handleJoin(ws, m, f) ==
    /\ wsOpen[ws]
    /\ UNCHANGED wsOpen
    /\ TasksUnchanged
    /\ IF m.peerId = "" \/ m.nodeType = "" \/ m.nodeTier = "" \/ m.region = ""
       THEN /\ Send(sendError(ws, "Invalid join message format", f))
            /\ RegistryUnchanged
       ELSE IF /\ m.nodeType # "individual"
               /\ ~validateValidatorEligibility(m.nodeTier, m.nodeType, m.tokenBalance)
       THEN /\ Send(sendError(ws, "Insufficient tier or tokens for validator role", f))
            /\ RegistryUnchanged
       ELSE LET peer == ConnectedPeer(m, ws)
                reg == MapSet(peers, peer)
                msgs == broadcastToPeerGroup(reg, wsOpen, m.peerId, m.region, "peer_joined")
            IN /\ peers' = reg
               /\ addNode(peer)
               /\ updateRegionInfo(m.region, m.peerId, m.nodeType)
               /\ Send(sendMessage(ws, "network_state", "", f)
                            \cup Delivered(msgs, f)
                            \cup (IF Threw(msgs, f)
                                  THEN sendError(ws, "Failed to handle join", f)
                                  ELSE {}))

\* handleLeave(peerId); replyTo is the connection a thrown error is reported
\* to (NoSocket when the caller is not a message handler), open the
\* readyState of the connections while it runs
handleLeave(peerId, replyTo, f, open) ==
    IF ~Has(peers, peerId)
    THEN /\ RegistryUnchanged /\ TasksUnchanged /\ Send({})
    ELSE LET peer == Get(peers, peerId)
             reg == MapDelete(peers, peerId)
             msgs == broadcastToPeerGroup(reg, open, peerId, peer.region, "peer_left")
         IN /\ regions' = [regions EXCEPT
                   ![peer.region].peers = @ \ {peerId},
                   ![peer.region].validators =
                       IF peer.nodeType # "individual" THEN @ \ {peerId} ELSE @]
            /\ removeNode(peerId, peer.nodeType, peer.region)
            /\ peers' = reg
            /\ Send(Delivered(msgs, f)
                         \cup (IF Threw(msgs, f)
                               THEN sendError(replyTo, "Failed to handle leave", f)
                               ELSE {}))

\* a leave message for peerId arrives on connection ws
Leave(ws, peerId, f) ==
    /\ wsOpen[ws]
    /\ UNCHANGED wsOpen
    /\ handleLeave(peerId, ws, f, wsOpen)

\* findPeerByWebSocket: the first registered peer whose handle is ws
findPeerByWebSocket(ws) ==
    LET on == SelectSeq(peers, LAMBDA p : p.ws = ws)
    IN IF on = <<>> THEN <<>> ELSE <<Head(on)>>

\* connection ws closes: readyState leaves OPEN and handleDisconnection runs
handleDisconnection(ws, f) ==
    /\ wsOpen[ws]
    /\ wsOpen' = [wsOpen EXCEPT ![ws] = FALSE]
    /\ LET peer == findPeerByWebSocket(ws)
       IN IF peer = <<>>
          THEN /\ RegistryUnchanged /\ TasksUnchanged /\ Send({})
          ELSE handleLeave(peer[1].peerId, NoSocket, f, [wsOpen EXCEPT ![ws] = FALSE])

\* cleanupInactivePeers finds peerId silent beyond the peer timeout
cleanupInactivePeers(peerId, f) ==
    /\ Has(peers, peerId)
    /\ UNCHANGED wsOpen
    /\ handleLeave(peerId, NoSocket, f, wsOpen)

(***************************************************************************)
(* ValidatorSystem: task lifecycle                                         *)
(***************************************************************************)
\* setupTaskTimeout: a new timer is armed and its handle stored in the table
\* (an earlier timer of the same task id is not cleared)
NewTimer ==
    CHOOSE n \in 1..(Cardinality(timers) + Cardinality(DOMAIN taskTimeouts) + 1) :
        /\ \A t \in timers : t.id # n
        /\ \A k \in DOMAIN taskTimeouts : taskTimeouts[k] # n

setupTaskTimeout(taskId) ==
    /\ timers' = timers \cup {[id |-> NewTimer, taskId |-> taskId]}
    /\ taskTimeouts' = Put(taskTimeouts, taskId, NewTimer)

\* the forwarding loop of broadcastTask: per region in key order, the selected
\* online regional validator
BroadcastTargets(taskId) ==
    Flatten([i \in 1..Len(regionKeys) |->
        LET eligibleValidators ==
                SelectSeq(regionalValidators[regionKeys[i]], LAMBDA v : v.online)
        IN IF eligibleValidators = <<>> THEN <<>>
           ELSE forwardMessage(selectRegionalValidator(eligibleValidators),
                               "task_broadcast", taskId, 0)])

\* broadcastTask(task): whether the task is registered (validation passed,
\* activeTasks.set and setupTaskTimeout ran), the messages forwarded, and
\* whether the call threw (validation error, or a forward that failed)
broadcastTask(task, f) ==
    IF ~validateTaskRequirements(task)
    THEN [registered |-> FALSE, threw |-> TRUE, out |-> {}]
    ELSE [registered |-> TRUE,
          threw |-> Threw(BroadcastTargets(task.taskId), f),
          out |-> Delivered(BroadcastTargets(task.taskId), f)]

\* a task_broadcast message naming sender peerId arrives
handleTaskBroadcast(peerId, m, f) ==
    /\ UNCHANGED wsOpen
    /\ RegistryUnchanged
    /\ UNCHANGED rewardDistributions
    /\ IF ~Has(peers, peerId) \/ Get(peers, peerId).nodeType # "global_node"
       THEN /\ Send({})
            /\ UNCHANGED <<activeTasks, taskTimeouts, timers>>
       ELSE LET r == broadcastTask(Task(m), f)
            IN /\ IF r.registered
                  THEN /\ Cardinality(timers) < MaxTimers
                       /\ activeTasks' = Put(activeTasks, m.taskId, Task(m))
                       /\ setupTaskTimeout(m.taskId)
                  ELSE UNCHANGED <<activeTasks, taskTimeouts, timers>>
               /\ Send(r.out \cup
                     (IF r.threw
                      THEN sendError(Get(peers, peerId).ws, "Task broadcast failed", f)
                      ELSE {}))

\* retryTask(taskId), a call of the engine's public API
retryTask(taskId, f) ==
    /\ UNCHANGED wsOpen
    /\ RegistryUnchanged
    /\ UNCHANGED rewardDistributions
    /\ IF taskId \notin DOMAIN activeTasks
          \/ activeTasks[taskId].status.state # "failed"
       THEN /\ Send({})
            /\ UNCHANGED <<activeTasks, taskTimeouts, timers>>
       ELSE LET task == [activeTasks[taskId] EXCEPT !.status = InitialStatus]
                r == broadcastTask(task, f)
            IN /\ activeTasks' = Put(activeTasks, taskId, task)
               /\ IF r.registered
                  THEN /\ Cardinality(timers) < MaxTimers
                       /\ setupTaskTimeout(taskId)
                  ELSE UNCHANGED <<taskTimeouts, timers>>
               /\ Send(r.out)

\* the first maxNodes eligible individual nodes of the region
eligibleNodes(task, region) ==
    LET eligible == SelectSeq(individualNodes[region],
                              LAMBDA node : isNodeEligibleForTask(node, task))
    IN SubSeq(eligible, 1, IF Len(eligible) < task.maxNodes THEN Len(eligible)
                           ELSE task.maxNodes)

PeerIdsOf(ps) == [i \in 1..Len(ps) |-> ps[i].peerId]

\* handleRegionalTaskDistribution(task, region): the assignments sent, and
\* the task as stored when no send throws
AssignmentMsgs(task, region) ==
    LET eligible == eligibleNodes(task, region)
    IN Flatten([i \in 1..Len(eligible) |->
           forwardMessage(eligible[i], "task_assignment", task.taskId,
                          calculateNodeReward(task, Len(eligible)))])

handleRegionalTaskDistribution(task, region) ==
    [task EXCEPT !.status.assignedNodes =
                      @ \o PeerIdsOf(eligibleNodes(task, region))]

\* a task_assignment message naming sender peerId arrives
handleTaskAssignment(peerId, m, f) ==
    /\ UNCHANGED wsOpen
    /\ RegistryUnchanged
    /\ UNCHANGED <<taskTimeouts, timers, rewardDistributions>>
    /\ IF ~Has(peers, peerId) \/ Get(peers, peerId).nodeType # "regional_node"
       THEN /\ Send({}) /\ UNCHANGED activeTasks
       ELSE LET region == Get(peers, peerId).region
                msgs == AssignmentMsgs(Task(m), region)
            IN IF eligibleNodes(Task(m), region) = <<>>
               THEN /\ Send({}) /\ UNCHANGED activeTasks
               ELSE IF Threw(msgs, f)
               THEN /\ Send(Delivered(msgs, f) \cup
                        sendError(Get(peers, peerId).ws, "Task assignment failed", f))
                    /\ UNCHANGED activeTasks
               ELSE /\ Send(Delivered(msgs, f))
                    /\ activeTasks' = Put(activeTasks, m.taskId,
                          handleRegionalTaskDistribution(Task(m), region))

\* an acceptance that restarts the task every time
handleTaskAcceptance_AlwaysRestart(task, peerId) ==
    [task EXCEPT !.status.acceptedNodes = Append(@, peerId),
                 !.status.startTime = TRUE,
                 !.status.state = "processing"]

\* handleTaskAcceptance on the stored task
handleTaskAcceptance(task, peerId) ==
    IF ~task.status.startTime
    THEN [task EXCEPT !.status.acceptedNodes = Append(@, peerId),
                      !.status.startTime = TRUE,
                      !.status.state = "processing"]
    ELSE [task EXCEPT !.status.acceptedNodes = Append(@, peerId)]

\* a task_accepted message arrives
TaskAccepted(taskId, peerId) ==
    /\ UNCHANGED wsOpen
    /\ RegistryUnchanged
    /\ UNCHANGED <<taskTimeouts, timers>>
    /\ Send({})
    /\ IF taskId \notin DOMAIN activeTasks
       THEN UNCHANGED <<activeTasks, rewardDistributions>>
       ELSE /\ Len(activeTasks[taskId].status.acceptedNodes) < MaxAccepted
            /\ activeTasks' = Put(activeTasks, taskId,
                                  handleTaskAcceptance(activeTasks[taskId], peerId))
            /\ rewardDistributions' =
                  IF taskId \in DOMAIN rewardDistributions THEN rewardDistributions
                  ELSE Put(rewardDistributions, taskId, <<>>)

\* the reward recorded for one completion report; duration is the elapsed
\* time in seconds (when startTime is unset the elapsed time is NaN and no
\* comparison with it holds)
\* the late-completion penalty without its cap at the whole reward
completionReward_NoCap(task, duration) ==
    LET reward == task.perNode * Unit
        est == task.estimatedDuration
        over == (duration - est) * task.penaltyRate
    IN IF task.status.startTime /\ duration > est
       THEN (reward * (est - over)) \div est
       ELSE reward

completionReward(task, duration) ==
    LET reward == task.perNode * Unit
        est == task.estimatedDuration
        over == (duration - est) * task.penaltyRate
    IN IF task.status.startTime /\ duration > est
       THEN (IF over >= est THEN 0 ELSE (reward * (est - over)) \div est)
       ELSE reward

RECURSIVE SetAll(_, _, _)
SetAll(ledger, validators, amount) ==
    IF validators = <<>> THEN ledger
    ELSE SetAll(MapSet(ledger, [peerId |-> Head(validators).peerId, amount |-> amount]),
                Tail(validators), amount)

\* finalizeTask: the ledger after the validator shares were entered
finalLedger(task, taskRewards) ==
    LET validatorReward == (task.total * Unit * task.validatorShare) \div 100
        validators == getTaskValidators(task)
    IN IF validators = <<>> THEN taskRewards
       ELSE SetAll(taskRewards, validators, validatorReward \div Len(validators))

\* finalizeTask: the reward_distribution messages, in ledger order
RewardMsgs(taskId, ledger) ==
    Flatten([i \in 1..Len(ledger) |->
        LET peer == findPeer(ledger[i].peerId)
        IN IF peer = <<>> THEN <<>>
           ELSE forwardMessage(peer[1], "reward_distribution", taskId, ledger[i].amount)])

finalizeTask(task) ==
    [task EXCEPT !.status.state = "completed", !.status.completionTime = TRUE]

\* a task_completed message arrives, duration seconds after startTime
handleTaskCompletion(taskId, peerId, duration, f) ==
    /\ UNCHANGED wsOpen
    /\ RegistryUnchanged
    /\ LET reply == IF Has(peers, peerId)
                    THEN sendError(Get(peers, peerId).ws, "Task completion failed", f)
                    ELSE {}
       IN
       IF taskId \notin DOMAIN activeTasks
       THEN /\ Send({}) /\ TasksUnchanged
       ELSE IF taskId \notin DOMAIN rewardDistributions
       THEN /\ Send(reply) /\ TasksUnchanged
       ELSE LET task == activeTasks[taskId]
                taskRewards == MapSet(rewardDistributions[taskId],
                                  [peerId |-> peerId,
                                   amount |-> completionReward(task, duration)])
                ledger == finalLedger(task, taskRewards)
                msgs == RewardMsgs(taskId, ledger)
            IN IF Len(taskRewards) # Len(task.status.acceptedNodes)
               THEN /\ rewardDistributions' = Put(rewardDistributions, taskId, taskRewards)
                    /\ Send({})
                    /\ UNCHANGED <<activeTasks, taskTimeouts, timers>>
               ELSE /\ activeTasks' = Put(activeTasks, taskId, finalizeTask(task))
                    /\ IF Threw(msgs, f)
                       THEN /\ rewardDistributions' = Put(rewardDistributions, taskId, ledger)
                            /\ Send(Delivered(msgs, f) \cup reply)
                            /\ UNCHANGED <<taskTimeouts, timers>>
                       ELSE /\ cleanupTask({taskId})
                            /\ Send(Delivered(msgs, f))

\* a timeout that fails the task whatever its state
handleTaskTimeout_AnyState(t) ==
    /\ t \in timers
    /\ UNCHANGED wsOpen
    /\ RegistryUnchanged
    /\ Send({})
    /\ IF t.taskId \notin DOMAIN activeTasks
       THEN /\ timers' = timers \ {t}
            /\ UNCHANGED <<activeTasks, taskTimeouts, rewardDistributions>>
       ELSE /\ activeTasks' = [activeTasks EXCEPT
                  ![t.taskId].status.state = "failed",
                  ![t.taskId].status.error = "Task timed out waiting for acceptance"]
            /\ timers' = (timers \ {t}) \
                  {[id |-> taskTimeouts[k], taskId |-> k] :
                       k \in {t.taskId} \cap DOMAIN taskTimeouts}
            /\ taskTimeouts' = Drop(taskTimeouts, {t.taskId})
            /\ rewardDistributions' = Drop(rewardDistributions, {t.taskId})

\* an armed timer fires: handleTaskTimeout(taskId)
handleTaskTimeout(t) ==
    /\ t \in timers
    /\ UNCHANGED wsOpen
    /\ RegistryUnchanged
    /\ Send({})
    /\ IF t.taskId \notin DOMAIN activeTasks
          \/ activeTasks[t.taskId].status.state # "pending"
       THEN /\ timers' = timers \ {t}
            /\ UNCHANGED <<activeTasks, taskTimeouts, rewardDistributions>>
       ELSE /\ activeTasks' = [activeTasks EXCEPT
                  ![t.taskId].status.state = "failed",
                  ![t.taskId].status.error = "Task timed out waiting for acceptance"]
            /\ timers' = (timers \ {t}) \
                  {[id |-> taskTimeouts[k], taskId |-> k] :
                       k \in {t.taskId} \cap DOMAIN taskTimeouts}
            /\ taskTimeouts' = Drop(taskTimeouts, {t.taskId})
            /\ rewardDistributions' = Drop(rewardDistributions, {t.taskId})

\* the periodic sweep of setupTaskCleanup finds taskId terminal and older
\* than the retention period (its timestamp is the submitter's)
setupTaskCleanup(taskId) ==
    /\ taskId \in DOMAIN activeTasks
    /\ activeTasks[taskId].status.state \in {"completed", "failed"}
    /\ activeTasks' = Drop(activeTasks, {taskId})
    /\ Send({})
    /\ UNCHANGED wsOpen
    /\ RegistryUnchanged
    /\ UNCHANGED <<taskTimeouts, timers, rewardDistributions>>

(***************************************************************************)
(* Task engine specification: a global validator, a regional validator and *)
(* two individual nodes of one region, each on its own connection, and one *)
(* task id.  Every send succeeds and every report arrives in time.         *)
(***************************************************************************)
JoinMsg(peerId, nodeType, nodeTier, tokenBalance, region) ==
    [peerId |-> peerId, nodeType |-> nodeType, nodeTier |-> nodeTier,
     tokenBalance |-> tokenBalance, region |-> region]

TaskMsg(taskId, type, minTier, total, perNode, validatorShare, estimatedDuration, maxNodes) ==
    [taskId |-> taskId, type |-> type, minTier |-> minTier, total |-> total,
     perNode |-> perNode, validatorShare |-> validatorShare, penaltyRate |-> 1,
     estimatedDuration |-> estimatedDuration, maxNodes |-> maxNodes,
     gpuRequired |-> FALSE, submitter |-> "g1"]

\* the validators connect first, g1 then v1; the workers come and go
ValidatorJoins ==
    <<<<"w1", JoinMsg("g1", "global_node", "training", 5000, "r1")>>,
      <<"w2", JoinMsg("v1", "regional_node", "aggregator", 1000, "r1")>>>>
WorkerJoins ==
    {<<"w3", JoinMsg("n1", "individual", "training", 0, "r1")>>,
     <<"w4", JoinMsg("n2", "individual", "feedback", 0, "r1")>>}

Workers == {"n1", "n2"}
Submitters == {"g1", "n1"}
Distributors == {"v1", "n1"}
TaskIds == {"t1"}
TaskMsgs ==
    {TaskMsg("t1", "train", "training", 200, 90, 10, 60, 2)}
Durations == {30}
WorkerSockets == {"w3", "w4"}
Failing == {NoSocket}

NextTask ==
    \/ \E i \in 1..Len(ValidatorJoins), f \in Failing :
          /\ Len(peers) = i - 1
          /\ handleJoin(ValidatorJoins[i][1], ValidatorJoins[i][2], f)
          /\ ServerOnly
    \/ \E j \in WorkerJoins, f \in Failing :
          /\ Len(peers) >= Len(ValidatorJoins)
          /\ handleJoin(j[1], j[2], f)
          /\ ServerOnly
    \/ \E ws \in WorkerSockets, p \in Workers, f \in Failing :
          /\ Leave(ws, p, f)
          /\ ServerOnly
    \/ \E ws \in WorkerSockets, f \in Failing :
          /\ handleDisconnection(ws, f)
          /\ ServerOnly
    \/ \E p \in Submitters, m \in TaskMsgs, f \in Failing :
          /\ handleTaskBroadcast(p, m, f)
          /\ ServerOnly
    \/ \E p \in Distributors, m \in TaskMsgs, f \in Failing :
          /\ handleTaskAssignment(p, m, f)
          /\ ServerOnly
    \/ \E k \in TaskIds, p \in Workers :
          /\ TaskAccepted(k, p)
          /\ ServerOnly
    \/ \E k \in TaskIds, p \in Workers, d \in Durations, f \in Failing :
          /\ handleTaskCompletion(k, p, d, f)
          /\ ServerOnly
    \/ \E t \in timers :
          /\ handleTaskTimeout(t)
          /\ ServerOnly
    \/ \E k \in TaskIds :
          /\ setupTaskCleanup(k)
          /\ ServerOnly
    \/ \E k \in TaskIds, f \in Failing :
          /\ retryTask(k, f)
          /\ ServerOnly

SpecTask == InitQuiet /\ [][NextTask]_vars

(***************************************************************************)
(* Task policy specification: g1, v1 and one feedback-tier node connect;   *)
(* task_broadcast messages carry, for every task type, every validator     *)
(* share of the policy table, all other fields within policy;              *)
(* task_assignment messages carry a train task within policy and the same  *)
(* task with one field outside policy.  Every send succeeds.               *)
(***************************************************************************)
PolicyJoins ==
    <<<<"w1", JoinMsg("g1", "global_node", "training", 5000, "r1")>>,
      <<"w2", JoinMsg("v1", "regional_node", "aggregator", 1000, "r1")>>,
      <<"w3", JoinMsg("n1", "individual", "feedback", 0, "r1")>>>>

Shares == {TASK_TIER_REQUIREMENTS[t].validatorShare : t \in TaskType}
ShareMsgs ==
    {TaskMsg("t1", t, "feedback", 200, 0, sh, 60, 2) : t \in TaskType, sh \in Shares}
PolicyMsgs ==
    {TaskMsg("t1", "train", "training", 200, 90, 10, 60, 2),
     TaskMsg("t1", "train", "inference", 200, 90, 10, 60, 2),
     TaskMsg("t1", "train", "training", 99, 90, 10, 60, 2),
     TaskMsg("t1", "train", "training", 200, 90, 5, 60, 2),
     TaskMsg("t1", "train", "training", 200, 90, 10, 59, 2),
     TaskMsg("t1", "train", "training", 200, 90, 10, 86401, 2),
     TaskMsg("t1", "train", "training", 200, 90, 10, 60, 101)}

NextPolicy ==
    \/ \E i \in 1..Len(PolicyJoins) :
          /\ Len(peers) = i - 1
          /\ handleJoin(PolicyJoins[i][1], PolicyJoins[i][2], NoSocket)
          /\ ServerOnly
    \/ \E p \in Submitters, m \in ShareMsgs :
          /\ handleTaskBroadcast(p, m, NoSocket)
          /\ ServerOnly
    \/ \E p \in Distributors, m \in PolicyMsgs :
          /\ handleTaskAssignment(p, m, NoSocket)
          /\ ServerOnly
    \/ \E t \in timers :
          /\ handleTaskTimeout(t)
          /\ ServerOnly
    \/ \E k \in TaskIds :
          /\ setupTaskCleanup(k)
          /\ ServerOnly

SpecPolicy == Init /\ [][NextPolicy]_vars

(***************************************************************************)
(* C1: for every task type, a task_broadcast from a registered global      *)
(* validator whose task declares a validatorShare other than the share the *)
(* policy table fixes for its type is rejected: the call throws (the       *)
(* sender is told "Task broadcast failed") and neither the task table nor  *)
(* the timers change.                                                      *)
(***************************************************************************)
C1_ShareMismatchRejected ==
    [][\A p \in Submitters, m \in ShareMsgs :
          ( /\ handleTaskBroadcast(p, m, NoSocket)
            /\ Has(peers, p)
            /\ Get(peers, p).nodeType = "global_node"
            /\ m.validatorShare # TASK_TIER_REQUIREMENTS[m.type].validatorShare )
          => ( /\ activeTasks' = activeTasks
               /\ taskTimeouts' = taskTimeouts
               /\ timers' = timers
               /\ \E e \in sent' : e.type = "error" /\ e.ref = "Task broadcast failed" )]_vars

\* a broadcast was rejected (under SpecPolicy only a share mismatch rejects one)
C1_Witness ==
    /\ activeTasks = EmptyMap
    /\ \E e \in sent : e.type = "error" /\ e.ref = "Task broadcast failed"

(***************************************************************************)
(* C2: no task in the active task table violates task policy (tier outside *)
(* the type's tier set, total below the type's minimum, validator share    *)
(* other than the type's, estimated duration outside 60..86400 seconds,    *)
(* more than 100 nodes).                                                   *)
(***************************************************************************)
ViolatesPolicy(task) ==
    \/ task.minTier \notin TASK_TIER_REQUIREMENTS[task.type].tiers
    \/ task.total < TASK_TIER_REQUIREMENTS[task.type].minReward
    \/ task.validatorShare # TASK_TIER_REQUIREMENTS[task.type].validatorShare
    \/ task.estimatedDuration < 60
    \/ task.estimatedDuration > 86400
    \/ task.maxNodes > 100

C2_NoPolicyViolationInTable ==
    \A k \in DOMAIN activeTasks : ~ViolatesPolicy(activeTasks[k])

(***************************************************************************)
(* Properties of the task lifecycle, checked under SpecTask                *)
(***************************************************************************)

(***************************************************************************)
(* C3: for every finalized task (state completed) the per-node reward      *)
(* times the number of accepted nodes, plus the validator pool             *)
(* total * validatorShare / 100, equals reward.total (no report is late    *)
(* under SpecTask, so no penalty reduces the sum).  Stated for the tasks   *)
(* whose accepted nodes had all been assigned.                             *)
(***************************************************************************)
C3_RewardConservation ==
    \A k \in DOMAIN activeTasks :
        LET task == activeTasks[k] IN
        ( /\ task.status.state = "completed"
          /\ Elems(task.status.acceptedNodes) \subseteq Elems(task.status.assignedNodes) )
        =>
            task.perNode * Len(task.status.acceptedNodes) * 100
                + task.total * task.validatorShare = task.total * 100

(***************************************************************************)
(* C4: a registered task for which no region has an eligible individual    *)
(* node stays pending until its timeout timer fires, and the firing makes  *)
(* it failed: a step from such a pending task either keeps it pending or   *)
(* consumes one of its timers and leaves it failed.                        *)
(***************************************************************************)
NoEligibleNode(task) == \A r \in Regions : eligibleNodes(task, r) = <<>>

C4_PendingUntilTimeout ==
    [][\A k \in TaskIds :
          ( /\ k \in DOMAIN activeTasks
            /\ activeTasks[k].status.state = "pending"
            /\ NoEligibleNode(activeTasks[k])
            /\ k \in DOMAIN activeTasks' )
          => \/ activeTasks'[k].status.state = "pending"
             \/ /\ activeTasks'[k].status.state = "failed"
                /\ \E t \in timers : t.taskId = k /\ t \notin timers']_vars

(***************************************************************************)
(* The server handles the departure of registered node p: a leave message  *)
(* for p arrives, or the connection p joined on closes.                    *)
(***************************************************************************)
NodeDeparts(p) ==
    /\ Has(peers, p)
    /\ \E ws \in WorkerSockets, f \in Failing :
          \/ Leave(ws, p, f)
          \/ handleDisconnection(ws, f) /\ Get(peers, p).ws = ws

(***************************************************************************)
(* C5: when the node that is the only entry of a task's assignedNodes      *)
(* disconnects or leaves, the task becomes failed with the reason          *)
(* 'All assigned nodes failed'.                                            *)
(***************************************************************************)
C5_OnlyAssigneeDeparts ==
    [][\A p \in Workers, k \in TaskIds :
          ( /\ NodeDeparts(p)
            /\ k \in DOMAIN activeTasks
            /\ activeTasks[k].status.assignedNodes = <<p>> )
          => /\ k \in DOMAIN activeTasks'
             /\ activeTasks'[k].status.state = "failed"
             /\ activeTasks'[k].status.error = "All assigned nodes failed"
             /\ activeTasks'[k].status.assignedNodes = <<>>]_vars

\* a task failed because its last assigned node departed, that node having
\* accepted it (startTime is set) and being no longer registered
C5_Witness ==
    \E k \in DOMAIN activeTasks :
        /\ activeTasks[k].status.state = "failed"
        /\ activeTasks[k].status.error = "All assigned nodes failed"
        /\ activeTasks[k].status.assignedNodes = <<>>
        /\ activeTasks[k].status.startTime
        /\ \E p \in Workers : ~Has(peers, p)

(***************************************************************************)
(* C6: when an assigned node of a processing task disconnects or leaves    *)
(* while another assignee remains, the task stays processing: the node is  *)
(* removed from assignedNodes and acceptedNodes, and the rest of the task  *)
(* record (state, error, timestamps), its timers and its ledger entry are  *)
(* unchanged.                                                              *)
(***************************************************************************)
EntryOf(table, k) == IF k \in DOMAIN table THEN <<table[k]>> ELSE <<>>
TimersOf(set, k) == {t \in set : t.taskId = k}

C6_OtherAssigneeRemains ==
    [][\A p \in Workers, k \in TaskIds :
          ( /\ NodeDeparts(p)
            /\ k \in DOMAIN activeTasks
            /\ activeTasks[k].status.state = "processing"
            /\ Includes(activeTasks[k].status.assignedNodes, p)
            /\ Elems(activeTasks[k].status.assignedNodes) # {p} )
          => /\ k \in DOMAIN activeTasks'
             /\ activeTasks'[k] =
                   [activeTasks[k] EXCEPT
                       !.status.assignedNodes = Without(@, p),
                       !.status.acceptedNodes = Without(@, p)]
             /\ activeTasks'[k].status.state = "processing"
             /\ TimersOf(timers', k) = TimersOf(timers, k)
             /\ EntryOf(taskTimeouts', k) = EntryOf(taskTimeouts, k)
             /\ EntryOf(rewardDistributions', k) = EntryOf(rewardDistributions, k)]_vars

\* a processing task that n1 and n2 were assigned (in pool order) and both
\* accepted, after n1 departed: n2 alone is left in both lists
C6_Witness ==
    \E k \in DOMAIN activeTasks :
        /\ activeTasks[k].status.state = "processing"
        /\ activeTasks[k].status.assignedNodes = <<"n2">>
        /\ activeTasks[k].status.acceptedNodes = <<"n2">>
        /\ ~Has(peers, "n1")
        /\ ~wsOpen["w3"]
        /\ k \in DOMAIN rewardDistributions

(***************************************************************************)
(* C7: in every reachable state every peer id in a task's acceptedNodes    *)
(* also appears in the assignedNodes of the same task.                     *)
(***************************************************************************)
C7_AcceptedSubsetAssigned ==
    \A k \in DOMAIN activeTasks :
        Elems(activeTasks[k].status.acceptedNodes)
            \subseteq Elems(activeTasks[k].status.assignedNodes)

(***************************************************************************)
(* C8: a task whose state is completed or failed keeps that state for as   *)
(* long as it stays in the table, whatever message, disconnect or timer    *)
(* follows; only a resubmission of the task (retryTask, which goes through *)
(* broadcastTask) takes a failed task back to pending.                     *)
(***************************************************************************)
C8_TerminalStateStable ==
    [][\A k \in TaskIds :
          ( /\ k \in DOMAIN activeTasks
            /\ activeTasks[k].status.state \in {"completed", "failed"}
            /\ k \in DOMAIN activeTasks' )
          => \/ activeTasks'[k].status.state = activeTasks[k].status.state
             \/ /\ activeTasks[k].status.state = "failed"
                /\ activeTasks'[k].status.state = "pending"]_vars

(***************************************************************************)
(* Registry specification: peer a joins over connection w1 under every     *)
(* node type, both regions and token balances on either side of the        *)
(* validator thresholds, peer b over either connection as an individual    *)
(* node; they leave, their connections close, and the inactivity sweep     *)
(* removes them.  No task is submitted.  Every send succeeds.              *)
(***************************************************************************)
RegSockets == {"w1", "w2"}
RegPeers == {"a", "b"}
Balances == {500, regionalTokenRequirement, globalTokenRequirement}
RegJoinMsgs ==
    {JoinMsg("a", ty, "training", bal, r) :
        ty \in NodeType, bal \in Balances, r \in Regions}
    \cup {JoinMsg("a", "regional_node", "inference", globalTokenRequirement, "r1"),
          JoinMsg("a", "global_node", "aggregator", globalTokenRequirement, "r1"),
          JoinMsg("a", "individual", "training", 0, ""),
          JoinMsg("b", "individual", "training", 0, "r1")}

NextRegistry ==
    \/ \E ws \in RegSockets, m \in RegJoinMsgs :
          /\ m.peerId = "a" => ws = "w1"
          /\ handleJoin(ws, m, NoSocket)
          /\ ServerOnly
    \/ \E ws \in RegSockets, p \in RegPeers :
          /\ Leave(ws, p, NoSocket)
          /\ ServerOnly
    \/ \E ws \in RegSockets :
          /\ handleDisconnection(ws, NoSocket)
          /\ ServerOnly
    \/ \E p \in RegPeers :
          /\ cleanupInactivePeers(p, NoSocket)
          /\ ServerOnly

SpecRegistry == Init /\ [][NextRegistry]_vars

(***************************************************************************)
(* C9: in every reachable state a peer id is registered in at most one     *)
(* task-engine pool: the global validator map, one region's regional       *)
(* validator map, or one region's individual-node map.                     *)
(***************************************************************************)
PoolsHolding(p) ==
    {<<"global", r>> : r \in {r \in {""} : Has(globalValidators, p)}}
    \cup {<<"regional", r>> : r \in {r \in Regions : Has(regionalValidators[r], p)}}
    \cup {<<"individual", r>> : r \in {r \in Regions : Has(individualNodes[r], p)}}

C9_OnePoolPerPeer ==
    \A p \in RegPeers : Cardinality(PoolsHolding(p)) <= 1

(***************************************************************************)
(* C10: a join from a regional_node or global_node that fails eligibility  *)
(* (a regional_node needs tier aggregator or training and 1000 tokens, a   *)
(* global_node tier training or feedback and 5000 tokens) is answered with *)
(* an error message and changes nothing: not the peer registry, no         *)
(* region's peer or validator set, no task-engine pool.                    *)
(***************************************************************************)
IneligibleJoin(m) ==
    /\ m.peerId # "" /\ m.nodeTier # "" /\ m.region # ""
    /\ \/ /\ m.nodeType = "regional_node"
          /\ ~(m.nodeTier \in {"aggregator", "training"} /\ m.tokenBalance >= 1000)
       \/ /\ m.nodeType = "global_node"
          /\ ~(m.nodeTier \in {"training", "feedback"} /\ m.tokenBalance >= 5000)

C10_IneligibleJoinRejected ==
    [][\A ws \in RegSockets, m \in RegJoinMsgs :
          (handleJoin(ws, m, NoSocket) /\ IneligibleJoin(m))
          => /\ UNCHANGED <<peers, regions, regionKeys, globalValidators,
                            regionalValidators, individualNodes>>
             /\ \E e \in sent' : e.to = ws /\ e.type = "error"]_vars

\* an eligibility rejection was sent while peer a is not registered and no
\* region or pool holds it
C10_Witness ==
    /\ \E e \in sent : /\ e.type = "error"
                       /\ e.ref = "Insufficient tier or tokens for validator role"
    /\ ~Has(peers, "a")
    /\ PoolsHolding("a") = {}
    /\ \A r \in Regions : "a" \notin regions[r].peers \cup regions[r].validators

(***************************************************************************)
(* GlobalNodeCoordinator.  A tracked peer carries its connection handle    *)
(* and the two task counts of its status record.  A GlobalNodeHealth keeps *)
(* status, responsiveness, taskCompletion and the issues list; the         *)
(* completion rate is kept as the integer part of the percentage, which    *)
(* compares with the thresholds 50 and 80 as the percentage does.          *)
(* One iteration of the health-check loop is one action: what it awaits is *)
(* the probe, whose outcome is an input.                                   *)
(***************************************************************************)
MaxIssues == 6      \* longest issues list of one health record
MaxFailovers == 1   \* longest failover history

CoordPeer(peerId, ws, active, completed) ==
    [peerId |-> peerId, ws |-> ws, activeTasks |-> active, completedTasks |-> completed]

initializeHealthMetrics ==
    [status |-> "active", responsiveness |-> 100, taskCompletion |-> 100,
     issues |-> <<>>]

isNodeHealthy(hm, nodeId) == nodeId \in DOMAIN hm /\ hm[nodeId].status = "active"

\* the sends of broadcastToGlobalNodes that reach the wire (a failed send
\* only settles its promise)
broadcastToGlobalNodes(hm, type, ref, f) ==
    {Msg(globalNodes[i].ws, globalNodes[i].peerId, type, ref, 0) :
        i \in {j \in 1..Len(globalNodes) :
                 /\ isNodeHealthy(hm, globalNodes[j].peerId)
                 /\ wsOpen[globalNodes[j].ws]
                 /\ globalNodes[j].ws # f}}

\* completionRate of getNodeTaskMetrics: NaN and 0 are falsy, so both give 100
getNodeTaskMetrics(node) ==
    LET total == node.activeTasks + node.completedTasks
    IN IF total = 0 \/ node.completedTasks = 0 THEN 100
       ELSE (node.completedTasks * 100) \div total

determineNodeStatus(responsiveness, taskCompletion) ==
    IF responsiveness < 50 \/ taskCompletion < 50 THEN "failing"
    ELSE IF responsiveness < 80 \/ taskCompletion < 80 THEN "degraded"
    ELSE "active"

\* the health assessment with the step subtracted without the floor at 0
assessNodeHealth_NoFloor(peer, pingOk) ==
    LET health == IF peer.peerId \in DOMAIN healthMetrics
                  THEN healthMetrics[peer.peerId] ELSE initializeHealthMetrics
        responsiveness == IF pingOk THEN 100 ELSE health.responsiveness - 20
        taskCompletion == getNodeTaskMetrics(peer)
    IN [status |-> determineNodeStatus(responsiveness, taskCompletion),
        responsiveness |-> responsiveness,
        taskCompletion |-> taskCompletion,
        issues |-> IF pingOk THEN health.issues
                   ELSE Append(health.issues, "Node not responding to ping")]

assessNodeHealth(peer, pingOk) ==
    LET health == IF peer.peerId \in DOMAIN healthMetrics
                  THEN healthMetrics[peer.peerId] ELSE initializeHealthMetrics
        responsiveness == IF pingOk THEN 100
                          ELSE IF health.responsiveness - 20 < 0 THEN 0
                          ELSE health.responsiveness - 20
        taskCompletion == getNodeTaskMetrics(peer)
    IN [status |-> determineNodeStatus(responsiveness, taskCompletion),
        responsiveness |-> responsiveness,
        taskCompletion |-> taskCompletion,
        issues |-> IF pingOk THEN health.issues
                   ELSE Append(health.issues, "Node not responding to ping")]

getNodeTasks(nodeId) ==
    SelectSeq(coordinatorActiveTasks, LAMBDA task : task.globalValidator = nodeId)

\* reassignTask: the task_reassignment message for one task, none when the
\* send to the new node fails (the error is thrown on)
reassignTask(task, newNode, f) ==
    IF wsOpen[newNode.ws] /\ newNode.ws # f
    THEN {[to |-> newNode.ws, peer |-> newNode.peerId, type |-> "task_reassignment",
           ref |-> task.taskId, amount |-> 0,
           globalValidator |-> newNode.peerId,
           backupValidators |->
               LET others == SelectSeq(globalNodes, LAMBDA n : n.peerId # newNode.peerId)
               IN [i \in 1..Len(others) |-> others[i].peerId],
           previousNode |-> task.globalValidator]}
    ELSE {}

\* the failover that takes the last active validator as backup
handleNodeFailover_LastBackup(hm, nodeId, f) ==
    LET availableNodes ==
            SelectSeq(globalNodes, LAMBDA node :
                node.peerId # nodeId /\ isNodeHealthy(hm, node.peerId))
        affectedTasks == getNodeTasks(nodeId)
    IN IF ~Has(globalNodes, nodeId) \/ availableNodes = <<>>
       THEN [record |-> <<>>, out |-> {}, threw |-> FALSE]
       ELSE LET backupNode == availableNodes[Len(availableNodes)]
            IN IF affectedTasks # <<>> /\ reassignTask(affectedTasks[1], backupNode, f) = {}
               THEN [record |-> <<>>, out |-> {}, threw |-> TRUE]
               ELSE [record |-> <<[failedNodeId |-> nodeId,
                                   backupNodeId |-> backupNode.peerId,
                                   affectedTasks |-> [i \in 1..Len(affectedTasks) |->
                                                         affectedTasks[i].taskId]]>>,
                     out |-> UNION {reassignTask(affectedTasks[i], backupNode, f) :
                                       i \in 1..Len(affectedTasks)}
                             \cup broadcastToGlobalNodes(hm, "global_node_failover",
                                                         nodeId, f),
                     threw |-> FALSE]

\* handleNodeFailover under health table hm: the record appended (none when
\* the node is unknown or no backup is active) and the messages sent
handleNodeFailover(hm, nodeId, f) ==
    LET availableNodes ==
            SelectSeq(globalNodes, LAMBDA node :
                node.peerId # nodeId /\ isNodeHealthy(hm, node.peerId))
        affectedTasks == getNodeTasks(nodeId)
    IN IF ~Has(globalNodes, nodeId) \/ availableNodes = <<>>
       THEN [record |-> <<>>, out |-> {}, threw |-> FALSE]
       ELSE LET backupNode == availableNodes[1]
            IN IF affectedTasks # <<>> /\ reassignTask(affectedTasks[1], backupNode, f) = {}
               THEN [record |-> <<>>, out |-> {}, threw |-> TRUE]
               ELSE [record |-> <<[failedNodeId |-> nodeId,
                                   backupNodeId |-> backupNode.peerId,
                                   affectedTasks |-> [i \in 1..Len(affectedTasks) |->
                                                         affectedTasks[i].taskId]]>>,
                     out |-> UNION {reassignTask(affectedTasks[i], backupNode, f) :
                                       i \in 1..Len(affectedTasks)}
                             \cup broadcastToGlobalNodes(hm, "global_node_failover",
                                                         nodeId, f),
                     threw |-> FALSE]

\* handleDegradedNode: a global_node_health message to the healthy nodes
handleDegradedNode(hm, nodeId, f) ==
    IF ~Has(globalNodes, nodeId) \/ nodeId \notin DOMAIN hm THEN {}
    ELSE broadcastToGlobalNodes(hm, "global_node_health", nodeId, f)

addGlobalNode(peer, f) ==
    LET hm == Put(healthMetrics, peer.peerId, initializeHealthMetrics)
    IN /\ globalNodes' = MapSet(globalNodes, peer)
       /\ healthMetrics' = hm
       /\ UNCHANGED <<failoverHistory, coordinatorActiveTasks>>
       /\ Send({Msg(q.ws, q.peerId, "sync_request", "", 0) :
                   q \in {r \in Elems(MapSet(globalNodes, peer)) :
                            /\ isNodeHealthy(hm, r.peerId)
                            /\ wsOpen[r.ws] /\ r.ws # f}})
       /\ UNCHANGED wsOpen

removeGlobalNode(peerId, f) ==
    /\ UNCHANGED wsOpen
    /\ IF ~Has(globalNodes, peerId)
       THEN /\ CoordinatorUnchanged /\ Send({})
       ELSE LET hm == IF peerId \in DOMAIN healthMetrics
                      THEN [healthMetrics EXCEPT
                              ![peerId].status = "offline",
                              ![peerId].issues =
                                  Append(@, "Node disconnected from network")]
                      ELSE healthMetrics
                fo == handleNodeFailover(hm, peerId, f)
            IN /\ Len(failoverHistory) + Len(fo.record) <= MaxFailovers
               /\ fo.threw /\ peerId \in DOMAIN hm => Len(hm[peerId].issues) <= MaxIssues
               /\ failoverHistory' = failoverHistory \o fo.record
               /\ globalNodes' = IF fo.threw THEN globalNodes
                                 ELSE MapDelete(globalNodes, peerId)
               /\ healthMetrics' = IF fo.threw THEN hm ELSE Drop(hm, {peerId})
               /\ UNCHANGED coordinatorActiveTasks
               /\ Send(fo.out)

\* one iteration of the loop of checkGlobalNodesHealth, for tracked node
\* nodeId; pingOk is the outcome of pingNode
checkGlobalNodesHealth(nodeId, pingOk, f) ==
    /\ Has(globalNodes, nodeId)
    /\ LET peer == Get(globalNodes, nodeId)
           health == assessNodeHealth(peer, pingOk)
           hm == Put(healthMetrics, nodeId, health)
       IN /\ pingOk => wsOpen[peer.ws]
          /\ Len(health.issues) <= MaxIssues
          /\ healthMetrics' = hm
          /\ Send((IF health.status = "failing"
                    THEN handleDegradedNode(hm, nodeId, f) ELSE {})
                   \cup broadcastToGlobalNodes(hm, "global_node_health", nodeId, f))
    /\ UNCHANGED <<globalNodes, failoverHistory, coordinatorActiveTasks, wsOpen>>

\* the connection ws leaves OPEN; the coordinator registers no close handler
connectionCloses(ws) ==
    /\ wsOpen[ws]
    /\ wsOpen' = [wsOpen EXCEPT ![ws] = FALSE]
    /\ Send({})
    /\ CoordinatorUnchanged

(***************************************************************************)
(* Health specification: three global validators are tracked, g3 with one  *)
(* task completed of four; the probes of g1 succeed or fail and its        *)
(* connection closes, validators are removed and added again.  Every send  *)
(* succeeds.                                                               *)
(***************************************************************************)
CoordPeers ==
    {CoordPeer("g1", "w1", 0, 0), CoordPeer("g2", "w2", 0, 0),
     CoordPeer("g3", "w3", 3, 1)}
CoordIds == {p.peerId : p \in CoordPeers}
ClosingSockets == {"w1"}
ProbeOutcomes(n) == IF n = "g1" THEN BOOLEAN ELSE {TRUE}
CoordinatorOnly == RegistryUnchanged /\ TasksUnchanged /\ DhtUnchanged

NextHealth ==
    \/ \E p \in CoordPeers :
          /\ addGlobalNode(p, NoSocket)
          /\ CoordinatorOnly
    \/ \E n \in CoordIds :
          /\ removeGlobalNode(n, NoSocket)
          /\ CoordinatorOnly
    \/ \E n \in CoordIds : \E ok \in ProbeOutcomes(n) :
          /\ checkGlobalNodesHealth(n, ok, NoSocket)
          /\ CoordinatorOnly
    \/ \E ws \in ClosingSockets :
          /\ connectionCloses(ws)
          /\ CoordinatorOnly

SpecHealth == Init /\ [][NextHealth]_vars

(***************************************************************************)
(* C11: when a health check finds that a global validator's responsiveness *)
(* has dropped below 50, so that its status becomes failing, and another   *)
(* global validator is active, a failover is triggered: exactly one        *)
(* failover record, naming the failing validator, is appended to the       *)
(* failover history.                                                       *)
(***************************************************************************)
C11_FailingTriggersFailover ==
    [][\A n \in CoordIds :
          ( /\ n \in DOMAIN healthMetrics
            /\ healthMetrics[n].status # "failing"
            /\ n \in DOMAIN healthMetrics'
            /\ healthMetrics'[n].status = "failing"
            /\ healthMetrics'[n].responsiveness < 50
            /\ \E m \in CoordIds \ {n} :
                  Has(globalNodes', m) /\ isNodeHealthy(healthMetrics', m) )
          => /\ Len(failoverHistory') = Len(failoverHistory) + 1
             /\ failoverHistory'[Len(failoverHistory')].failedNodeId = n]_vars

(***************************************************************************)
(* Reward specification: global validator g1 and the regional validators   *)
(* v1 and v2 of region r1 connect, in this order; individual nodes n1 and  *)
(* n2 of r1 connect, each as an aggregator-tier or a training-tier node.   *)
(* g1 broadcasts a train task with total 200 and validator share 10; v2    *)
(* is the regional validator that distributes it; the nodes accept and     *)
(* report in time.  During a distribution the send on n2's socket may      *)
(* throw; every other send succeeds.                                       *)
(***************************************************************************)
RewardJoins ==
    <<<<"w1", JoinMsg("g1", "global_node", "training", 5000, "r1")>>,
      <<"w2", JoinMsg("v1", "regional_node", "aggregator", 1000, "r1")>>,
      <<"w3", JoinMsg("v2", "regional_node", "aggregator", 1000, "r1")>>>>
RewardWorkerJoins ==
    {<<"w5", JoinMsg("n1", "individual", tier, 0, "r1")>> :
        tier \in {"aggregator", "training"}}
    \cup {<<"w6", JoinMsg("n2", "individual", tier, 0, "r1")>> :
        tier \in {"aggregator", "training"}}
RewardTaskMsgs == {TaskMsg("t1", "train", "training", 200, 90, 10, 60, 2)}
AssignFailing == {NoSocket, "w6"}

NextReward ==
    \/ \E i \in 1..Len(RewardJoins) :
          /\ Len(peers) = i - 1
          /\ handleJoin(RewardJoins[i][1], RewardJoins[i][2], NoSocket)
          /\ ServerOnly
    \/ \E j \in RewardWorkerJoins :
          /\ Len(peers) >= Len(RewardJoins)
          /\ handleJoin(j[1], j[2], NoSocket)
          /\ ServerOnly
    \/ \E m \in RewardTaskMsgs :
          /\ handleTaskBroadcast("g1", m, NoSocket)
          /\ ServerOnly
    \/ \E m \in RewardTaskMsgs, f \in AssignFailing :
          /\ handleTaskAssignment("v2", m, f)
          /\ ServerOnly
    \/ \E k \in TaskIds, p \in Workers :
          /\ TaskAccepted(k, p)
          /\ ServerOnly
    \/ \E k \in TaskIds, p \in Workers, d \in Durations :
          /\ handleTaskCompletion(k, p, d, NoSocket)
          /\ ServerOnly

SpecReward == Init /\ [][NextReward]_vars

(***************************************************************************)
(* C12: a train task with total 200 and validator share 10 is distributed  *)
(* in a region whose individual nodes are two aggregator-tier nodes: both  *)
(* nodes are assigned the task and each assignment message carries         *)
(* perNode = 90.                                                           *)
(***************************************************************************)
C12_TrainScenario ==
    [][\A m \in RewardTaskMsgs :
          ( /\ handleTaskAssignment("v2", m, NoSocket)
            /\ Has(peers, "v2")
            /\ m.type = "train" /\ m.total = 200 /\ m.validatorShare = 10
            /\ Len(individualNodes["r1"]) = 2
            /\ \A i \in 1..2 : individualNodes["r1"][i].nodeTier = "aggregator" )
          => /\ \A i \in 1..2 :
                   \E e \in sent' : /\ e.type = "task_assignment"
                                    /\ e.peer = individualNodes["r1"][i].peerId
                                    /\ e.amount = 90 * Unit
             /\ m.taskId \in DOMAIN activeTasks'
             /\ Elems(activeTasks'[m.taskId].status.assignedNodes)
                    = Keys(individualNodes["r1"])]_vars

(***************************************************************************)
(* C13: when a task is finalized, the validator pool                       *)
(* total * validatorShare / 100 is split evenly between the global         *)
(* validator that submitted the task and every regional validator that     *)
(* took part in distributing it (under SpecReward: v2), and each of them   *)
(* is sent exactly that share; no other validator is paid.                 *)
(***************************************************************************)
C13_ValidatorPoolSplit ==
    [][\A k \in TaskIds :
          ( /\ k \in DOMAIN activeTasks
            /\ activeTasks[k].status.state # "completed"
            /\ activeTasks[k].status.assignedNodes # <<>>
            /\ Has(globalValidators, activeTasks[k].submitter)
            /\ k \in DOMAIN activeTasks'
            /\ activeTasks'[k].status.state = "completed" )
          => LET task == activeTasks[k]
                 paid == {task.submitter, "v2"}
                 share == ((task.total * Unit * task.validatorShare) \div 100)
                              \div Cardinality(paid)
                 rewards == {e \in sent' : e.type = "reward_distribution"}
             IN /\ \A v \in paid :
                      \E e \in rewards : e.peer = v /\ e.amount = share
                /\ \A e \in rewards :
                      e.peer \in paid \cup Elems(task.status.acceptedNodes)]_vars

(***************************************************************************)
(* C14: no timeout timer stays armed for a task whose state is terminal    *)
(* (completed or failed).                                                  *)
(***************************************************************************)
C14_NoTimerForTerminalTask ==
    \A k \in DOMAIN activeTasks :
        activeTasks[k].status.state \in {"completed", "failed"}
            => /\ TimersOf(timers, k) = {}
               /\ k \notin DOMAIN taskTimeouts

(***************************************************************************)
(* C15: every task id that has an entry in the reward ledger refers to a   *)
(* task that is in the task table and whose state is not terminal.         *)
(***************************************************************************)
C15_LedgerOnlyForLiveTasks ==
    \A k \in DOMAIN rewardDistributions :
        /\ k \in DOMAIN activeTasks
        /\ activeTasks[k].status.state \notin {"completed", "failed"}

(***************************************************************************)
(* Broadcast specification: global validator g1 connects; the regional     *)
(* validators v1 of region r1 and v2 of region r2 connect in either order  *)
(* and their connections may close; g1 broadcasts a train task.  During a  *)
(* broadcast the send on one of the validators' sockets may throw.         *)
(***************************************************************************)
BroadcastJoins ==
    {<<"w2", JoinMsg("v1", "regional_node", "aggregator", 1000, "r1")>>,
     <<"w3", JoinMsg("v2", "regional_node", "aggregator", 1000, "r2")>>}
BroadcastSockets == {"w2", "w3"}
BroadcastFailing == {NoSocket} \cup BroadcastSockets

NextBroadcast ==
    \/ /\ peers = <<>>
       /\ handleJoin("w1", JoinMsg("g1", "global_node", "training", 5000, "r1"), NoSocket)
       /\ ServerOnly
    \/ \E j \in BroadcastJoins :
          /\ peers # <<>>
          /\ handleJoin(j[1], j[2], NoSocket)
          /\ ServerOnly
    \/ \E ws \in BroadcastSockets :
          /\ handleDisconnection(ws, NoSocket)
          /\ ServerOnly
    \/ \E m \in TaskMsgs, f \in BroadcastFailing :
          /\ handleTaskBroadcast("g1", m, f)
          /\ ServerOnly
    \/ \E t \in timers :
          /\ handleTaskTimeout(t)
          /\ ServerOnly

SpecBroadcast == Init /\ [][NextBroadcast]_vars

(***************************************************************************)
(* C16: when, during broadcastTask, the send to one region's selected      *)
(* validator fails, the broadcast is not aborted: the task is still        *)
(* forwarded to the selected validator of every other region.              *)
(***************************************************************************)
C16_SendFailureIsPartial ==
    [][\A m \in TaskMsgs, f \in BroadcastSockets :
          ( /\ handleTaskBroadcast("g1", m, f)
            /\ Has(peers, "g1")
            /\ validateTaskRequirements(Task(m)) )
          => LET targets == BroadcastTargets(m.taskId)
             IN \A i \in 1..Len(targets) :
                   targets[i].to # f => targets[i] \in sent']_vars

(***************************************************************************)
(* DHTNetwork.  A DHTNode by value: id, address and the metadata fields    *)
(* the code reads.  Absent stands for a field that is undefined.  The      *)
(* three tables are Maps in insertion order; activeConnections is the set  *)
(* of ids that hold a socket.  A request is written to a node only when    *)
(* the node holds a socket whose readyState is OPEN: up is the set of ids  *)
(* whose socket is OPEN during the call.                                   *)
(***************************************************************************)
replicationFactor == 3
Absent == "undefined"
NoValue == "null"
nodeId == "self"
regionalNodes == <<"ws://regional-1", "ws://regional-2">>

DHTNode(id, address, region, nodeType, tokenBalance, nodeTier, directConnection) ==
    [id |-> id, address |-> address, region |-> region, nodeType |-> nodeType,
     tokenBalance |-> tokenBalance, nodeTier |-> nodeTier,
     directConnection |-> directConnection]
DhtMsg(to, type, key, value) == [to |-> to, type |-> type, key |-> key, value |-> value]

NodeHas(m, id) == \E i \in 1..Len(m) : m[i].id = id
NodeGet(m, id) == m[CHOOSE i \in 1..Len(m) : m[i].id = id]
NodeSet(m, r) ==
    IF NodeHas(m, r.id)
    THEN [i \in 1..Len(m) |-> IF m[i].id = r.id THEN r ELSE m[i]]
    ELSE Append(m, r)
NodeDelete(m, S) == SelectSeq(m, LAMBDA r : r.id \notin S)
NodeIds(m) == {m[i].id : i \in 1..Len(m)}

DhtOnly ==
    /\ UNCHANGED wsOpen
    /\ RegistryUnchanged /\ TasksUnchanged /\ CoordinatorUnchanged

\* sendMessage(node, message): the message written, none when the node has no OPEN socket
dhtSendMessage(id, type, key, value, up) ==
    IF id \in activeConnections /\ id \in up THEN {DhtMsg(id, type, key, value)} ELSE {}
\* sendResponse(node, response)
sendResponse(id, type, key, value, up) == dhtSendMessage(id, type, key, value, up)
\* broadcastMessage(message): to every node of the routing table
broadcastMessage(table, type, up) ==
    UNION {dhtSendMessage(id, type, "", "", up) : id \in NodeIds(table)}

\* the once('message') listeners registered on the socket of node id all run
\* on the next message event of that socket, whatever the message is: each
\* clears its timer and resolves its promise with the message (re is the
\* request the peer was answering, 0 for a request of the peer's own; the
\* code does not read it); resolving a promise already settled has no effect
Fired(reqs, id, type, re) ==
    [i \in 1..Len(reqs) |->
        IF reqs[i].to = id /\ reqs[i].listening
        THEN [reqs[i] EXCEPT !.listening = FALSE, !.timer = FALSE,
                             !.state = IF @ = "pending" THEN "resolved" ELSE @,
                             !.response = IF reqs[i].state = "pending" THEN type ELSE @,
                             !.re = IF reqs[i].state = "pending" THEN re ELSE @]
        ELSE reqs[i]]

\* the sockets of the nodes in S are closed: their listeners never run again
Unhooked(reqs, S) ==
    [i \in 1..Len(reqs) |->
        IF reqs[i].to \in S THEN [reqs[i] EXCEPT !.listening = FALSE] ELSE reqs[i]]

\* the peer filter with the region test left out
matchesFilter_AnyRegion(node, filter) ==
    /\ ~(filter.nodeType # Absent /\ node.nodeType # filter.nodeType)
    /\ ~(filter.minTokens # 0 /\ node.tokenBalance < filter.minTokens)
    /\ ~(filter.nodeTier # Absent /\ node.nodeTier # filter.nodeTier)

matchesFilter(node, filter) ==
    /\ ~(filter.nodeType # Absent /\ node.nodeType # filter.nodeType)
    /\ ~(filter.region # Absent /\ node.region # filter.region)
    /\ ~(filter.minTokens # 0 /\ node.tokenBalance < filter.minTokens)
    /\ ~(filter.nodeTier # Absent /\ node.nodeTier # filter.nodeTier)

\* one of getPeers' loops: the nodes of seq not yet seen that match the filter are pushed
RECURSIVE addMatching(_, _, _)
addMatching(found, seq, filter) ==
    IF seq = <<>> THEN found
    ELSE addMatching(IF ~NodeHas(found, Head(seq).id) /\ matchesFilter(Head(seq), filter)
                     THEN Append(found, Head(seq)) ELSE found,
                     Tail(seq), filter)

\* getPeers' third loop: every routing-table node with an OPEN socket is
\* asked; answers[id] is the peer list of its response
RECURSIVE askPeers(_, _, _, _, _)
askPeers(found, table, filter, up, answers) ==
    IF table = <<>> THEN found
    ELSE askPeers(IF Head(table).id \in activeConnections /\ Head(table).id \in up
                  THEN addMatching(found, answers[Head(table).id], filter)
                  ELSE found,
                  Tail(table), filter, up, answers)

getPeersResult(filter, up, answers) ==
    askPeers(addMatching(addMatching(<<>>, directConnections, filter), nodes, filter),
             nodes, filter, up, answers)

\* replication to the whole routing table
StoreTargets_All(table) == table

\* the first replicationFactor nodes of the routing table, in table order
StoreTargets(table) ==
    SubSeq(table, 1, IF Len(table) < replicationFactor THEN Len(table)
                     ELSE replicationFactor)

\* store(key, value) on a connected node: what it writes to the wire
StoreMsgs(table, key, value, up) ==
    UNION {dhtSendMessage(id, "store", key, value, up) : id \in NodeIds(StoreTargets(table))}

\* reestablishDirectConnection for every direct connection: a node without
\* a socket gets one when the new connection opens (restored)
Reestablished(active, restored) ==
    active \cup {id \in NodeIds(directConnections) : id \notin active /\ id \in restored}

\* connectToNode: the routing table after the addresses that opened were
\* added, opened[i] being the random id given to the i-th address or Absent
RECURSIVE connectAll(_, _, _)
connectAll(table, addresses, opened) ==
    IF opened = <<>> THEN table
    ELSE connectAll(IF Head(opened) = Absent THEN table
                    ELSE NodeSet(table, DHTNode(Head(opened), Head(addresses), Absent,
                                                Absent, 0, Absent, FALSE)),
                    Tail(addresses), Tail(opened))

join(opened, restored) ==
    /\ Len(opened) = Len(regionalNodes)
    /\ nodes' = connectAll(nodes, regionalNodes, opened)
    /\ activeConnections' =
          Reestablished(activeConnections \cup (Elems(opened) \ {Absent}), restored)
    /\ connected' = TRUE
    /\ returned' = [op |-> "join", ok |-> TRUE]
    /\ UNCHANGED <<data, directConnections, closing>>
    /\ Send({})
    /\ UNCHANGED requests
    /\ DhtOnly

leave(up) ==
    /\ Send(broadcastMessage(nodes, "leave", up))
    /\ closing' = closing \cup (activeConnections \cap NodeIds(directConnections))
    /\ connected' = FALSE
    /\ nodes' = <<>>
    /\ data' = EmptyMap
    /\ activeConnections' = {}
    /\ returned' = [op |-> "leave", ok |-> TRUE]
    /\ UNCHANGED directConnections
    /\ requests' = Unhooked(requests, activeConnections)
    /\ DhtOnly

store(key, value, up) ==
    /\ IF ~connected
       THEN /\ returned' = [op |-> "store", ok |-> FALSE]
            /\ UNCHANGED data
            /\ Send({})
       ELSE /\ data' = Put(data, key, value)
            /\ Send(StoreMsgs(nodes, key, value, up))
            /\ returned' = [op |-> "store", ok |-> TRUE]
    /\ UNCHANGED <<nodes, directConnections, activeConnections, connected, closing>>
    /\ UNCHANGED requests
    /\ DhtOnly

\* findValue without the look into the local store
findValue_Remote(key, up, holders, value) ==
    /\ IF ~connected
       THEN /\ returned' = [op |-> "findValue", ok |-> FALSE]
            /\ UNCHANGED data
            /\ Send({})
       ELSE LET asked == {id \in NodeIds(nodes) : id \in activeConnections /\ id \in up}
            IN /\ Send({DhtMsg(id, "findValue", key, "") : id \in asked})
               /\ IF asked \cap holders # {}
                  THEN /\ data' = Put(data, key, value)
                       /\ returned' = [op |-> "findValue", ok |-> TRUE, value |-> value]
                  ELSE /\ UNCHANGED data
                       /\ returned' = [op |-> "findValue", ok |-> TRUE, value |-> NoValue]
    /\ UNCHANGED <<nodes, directConnections, activeConnections, connected, closing>>
    /\ UNCHANGED requests
    /\ DhtOnly

\* findValue's loop: the routing-table nodes asked, up to the first one
\* whose response carries a value (holders)
Asked(table, up, holders) ==
    LET open(i) == table[i].id \in activeConnections /\ table[i].id \in up
        hit(i) == open(i) /\ table[i].id \in holders
    IN {table[i].id : i \in {j \in 1..Len(table) :
                               open(j) /\ \A h \in 1..(j - 1) : ~hit(h)}}

findValue(key, up, holders, value) ==
    /\ IF ~connected
       THEN /\ returned' = [op |-> "findValue", ok |-> FALSE]
            /\ UNCHANGED data
            /\ Send({})
       ELSE IF key \in DOMAIN data
       THEN /\ returned' = [op |-> "findValue", ok |-> TRUE, value |-> data[key]]
            /\ UNCHANGED data
            /\ Send({})
       ELSE LET asked == Asked(nodes, up, holders)
            IN /\ Send({DhtMsg(id, "findValue", key, "") : id \in asked})
               /\ IF asked \cap holders # {}
                  THEN /\ data' = Put(data, key, value)
                       /\ returned' = [op |-> "findValue", ok |-> TRUE, value |-> value]
                  ELSE /\ UNCHANGED data
                       /\ returned' = [op |-> "findValue", ok |-> TRUE, value |-> NoValue]
    /\ UNCHANGED <<nodes, directConnections, activeConnections, connected, closing>>
    /\ UNCHANGED requests
    /\ DhtOnly

getPeers(filter, up, answers) ==
    /\ IF ~connected
       THEN /\ returned' = [op |-> "getPeers", ok |-> FALSE]
            /\ Send({})
       ELSE /\ returned' = [op |-> "getPeers", ok |-> TRUE, filter |-> filter,
                            peers |-> getPeersResult(filter, up, answers)]
            /\ Send(UNION {dhtSendMessage(id, "getPeers", "", "", up) : id \in NodeIds(nodes)})
    /\ UNCHANGED <<nodes, data, directConnections, activeConnections, connected, closing>>
    /\ UNCHANGED requests
    /\ DhtOnly

\* announce(announcement): the announcement is stored under this node's key
\* and broadcast to the routing table
AnnouncementKey(id) == "announcement:" \o id
announceMsgs(announcement, up) ==
    StoreMsgs(nodes, AnnouncementKey(nodeId), announcement, up)
        \cup broadcastMessage(nodes, "announce", up)

\* establishDirectConnection: the node built from the caller's info and the
\* peer's info_response; rnd is the random id used when neither names one
EstablishedNode(address, info, nodeInfo, rnd) ==
    DHTNode(IF info.nodeId # Absent THEN info.nodeId
            ELSE IF nodeInfo.nodeId # Absent THEN nodeInfo.nodeId ELSE rnd,
            address,
            IF nodeInfo.region # Absent THEN nodeInfo.region ELSE info.region,
            nodeInfo.nodeType, nodeInfo.tokenBalance, nodeInfo.nodeTier,
            IF nodeInfo.directConnection = Absent THEN TRUE
            ELSE nodeInfo.directConnection = "true")

connectDirectly(info, opens, nodeInfo, rnd, up) ==
    /\ IF ~opens
       THEN /\ returned' = [op |-> "connectDirectly", ok |-> FALSE]
            /\ UNCHANGED <<directConnections, activeConnections, data>>
            /\ Send({})
       ELSE LET node == EstablishedNode(info.address, info, nodeInfo, rnd)
            IN /\ activeConnections' = activeConnections \cup {node.id}
               /\ directConnections' = NodeSet(directConnections, node)
               /\ returned' = [op |-> "connectDirectly", ok |-> TRUE, node |-> node]
               /\ IF connected
                  THEN LET announcement ==
                               IF node.region # Absent THEN node.region ELSE "unknown"
                       IN /\ data' = Put(data, AnnouncementKey(nodeId), announcement)
                          /\ Send({DhtMsg(node.id, "info_request", "", ""),
                                   DhtMsg(node.id, "info_response", "", "")}
                                  \cup announceMsgs(announcement, up))
                  ELSE /\ UNCHANGED data
                       /\ Send({DhtMsg(node.id, "info_request", "", ""),
                                DhtMsg(node.id, "info_response", "", "")})
    /\ UNCHANGED <<nodes, connected, closing>>
    /\ UNCHANGED requests
    /\ DhtOnly

disconnectDirect(id) ==
    /\ IF NodeHas(directConnections, id)
       THEN /\ activeConnections' = activeConnections \ {id}
            /\ closing' = IF id \in activeConnections THEN closing \cup {id} ELSE closing
            /\ directConnections' = NodeDelete(directConnections, {id})
       ELSE UNCHANGED <<activeConnections, closing, directConnections>>
    /\ returned' = [op |-> "disconnectDirect", ok |-> TRUE]
    /\ UNCHANGED <<nodes, data, connected>>
    /\ Send({})
    /\ UNCHANGED requests
    /\ DhtOnly

\* the disconnection handler without the reconnection attempt: a pinned
\* node is dropped from the direct-connection table whenever its socket closes
handleNodeDisconnection_NoReconnect(id, local, reopens) ==
    /\ IF local THEN id \in closing ELSE id \in activeConnections
    /\ closing' = IF local THEN closing \ {id} ELSE closing
    /\ nodes' = NodeDelete(nodes, {id})
    /\ activeConnections' = activeConnections \ {id}
    /\ directConnections' = NodeDelete(directConnections, {id})
    /\ Send({})
    /\ UNCHANGED <<data, connected, returned>>
    /\ requests' = Unhooked(requests, {id})
    /\ DhtOnly

\* the 'close' (or 'error') event of the socket set up for node id: either
\* the event of a socket this node closed (local), or the peer went away
handleNodeDisconnection(id, local, reopens) ==
    /\ IF local THEN id \in closing ELSE id \in activeConnections
    /\ closing' = IF local THEN closing \ {id} ELSE closing
    /\ nodes' = NodeDelete(nodes, {id})
    /\ IF NodeHas(directConnections, id)
       THEN IF reopens
            THEN /\ activeConnections' = activeConnections \cup {id}
                 /\ UNCHANGED directConnections
                 /\ Send({DhtMsg(id, "info_request", "", ""),
                          DhtMsg(id, "info_response", "", "")})
            ELSE /\ activeConnections' = activeConnections \ {id}
                 /\ directConnections' = NodeDelete(directConnections, {id})
                 /\ Send({})
       ELSE /\ activeConnections' = activeConnections \ {id}
            /\ UNCHANGED directConnections
            /\ Send({})
    /\ UNCHANGED <<data, connected, returned>>
    /\ requests' = Unhooked(requests, {id})
    /\ DhtOnly

\* the node object the socket handlers of id were set up with
HandlerNode(id) ==
    IF NodeHas(nodes, id) THEN NodeGet(nodes, id) ELSE NodeGet(directConnections, id)

\* a direct_connect message arrives from node id
handleDirectConnect(id, up) ==
    /\ id \in activeConnections
    /\ NodeHas(nodes, id) \/ NodeHas(directConnections, id)
    /\ LET node == [HandlerNode(id) EXCEPT !.directConnection = TRUE]
       IN /\ directConnections' = NodeSet(directConnections, node)
          /\ nodes' = IF NodeHas(nodes, id) THEN NodeSet(nodes, node) ELSE nodes
    /\ Send(sendResponse(id, "direct_connect_response", "", "", up))
    /\ UNCHANGED <<data, activeConnections, connected, closing, returned>>
    /\ requests' = Fired(requests, id, "direct_connect", 0)
    /\ DhtOnly

\* a store message arrives from node id
handleStore(id, key, value, up) ==
    /\ id \in activeConnections
    /\ data' = Put(data, key, value)
    /\ Send(sendResponse(id, "store_response", "", "", up))
    /\ UNCHANGED <<nodes, directConnections, activeConnections, connected, closing, returned>>
    /\ requests' = Fired(requests, id, "store", 0)
    /\ DhtOnly

\* a getPeers message arrives from node id: handleGetPeers runs getPeers
\* with the message's filter, which queries the routing table like any other
\* getPeers call, and answers with the list; getPeers throws when the node
\* is not connected and handleMessage logs the error
handleGetPeers(id, filter, up, answers) ==
    /\ id \in activeConnections
    /\ IF ~connected
       THEN Send({})
       ELSE Send(UNION {dhtSendMessage(n, "getPeers", "", "", up) : n \in NodeIds(nodes)}
                 \cup sendResponse(id, "getPeers_response", "", "", up))
    /\ requests' = Fired(requests, id, "getPeers", 0)
    /\ UNCHANGED <<nodes, data, directConnections, activeConnections, connected,
                   closing, returned>>
    /\ DhtOnly

\* sendMessage(node, message) is called and left outstanding: without an
\* OPEN socket the promise is rejected at once, else a one-shot listener and
\* a timer are registered and the message is written
MaxRequests == 2
Request(id, type, open) ==
    [to |-> id, type |-> type, state |-> IF open THEN "pending" ELSE "rejected",
     listening |-> open, timer |-> open,
     response |-> IF open THEN "" ELSE "WebSocket not open",
     re |-> 0, answered |-> ~open]

sendRequest(id, type, up) ==
    /\ Len(requests) < MaxRequests
    /\ requests' = Append(requests, Request(id, type, id \in activeConnections /\ id \in up))
    /\ Send(dhtSendMessage(id, type, "", "", up))
    /\ UNCHANGED <<nodes, data, directConnections, activeConnections, connected,
                   closing, returned>>
    /\ DhtOnly

\* the timer of the i-th request fires
messageTimeout(i) ==
    /\ i \in 1..Len(requests)
    /\ requests[i].timer
    /\ requests' = [requests EXCEPT
                       ![i].timer = FALSE,
                       ![i].state = IF @ = "pending" THEN "rejected" ELSE @,
                       ![i].response = IF requests[i].state = "pending"
                                       THEN "Message timeout" ELSE @]
    /\ Send({})
    /\ UNCHANGED <<nodes, data, directConnections, activeConnections, connected,
                   closing, returned>>
    /\ DhtOnly

\* the peer's response to the i-th request arrives on the socket of node id;
\* handleMessage has no case for a response type and only logs it
responseEvent(id, i) ==
    /\ id \in activeConnections
    /\ i \in 1..Len(requests)
    /\ requests[i].to = id
    /\ ~requests[i].answered
    /\ requests' = [Fired(requests, id, requests[i].type \o "_response", i)
                       EXCEPT ![i].answered = TRUE]
    /\ Send({})
    /\ UNCHANGED <<nodes, data, directConnections, activeConnections, connected,
                   closing, returned>>
    /\ DhtOnly

\* the refresh timer fires: stale routing-table nodes are dropped, one
\* regional address is dialled while fewer than three nodes remain, and
\* the direct connections are re-established
refresh(stale, address, opened, restored) ==
    /\ connected
    /\ LET kept == NodeDelete(nodes, stale)
           active == activeConnections \ (stale \cap NodeIds(nodes))
       IN IF Len(kept) < 3 /\ opened # Absent
          THEN /\ nodes' = connectAll(kept, <<address>>, <<opened>>)
               /\ activeConnections' = Reestablished(active \cup {opened}, restored)
          ELSE /\ nodes' = kept
               /\ activeConnections' = Reestablished(active, restored)
    /\ UNCHANGED <<data, directConnections, connected, closing, returned>>
    /\ Send({})
    /\ UNCHANGED requests
    /\ DhtOnly

(***************************************************************************)
(* Inputs of the DHT specifications.  The code compares the random ids     *)
(* given to new routing-table nodes only for equality, so they are drawn   *)
(* from IdPool in pool order, ids in use excepted.                         *)
(***************************************************************************)
IdPool == <<"node_a", "node_b", "node_c", "node_d">>
RoutingIds == Elems(IdPool)
DhtKeys == {"k1"}
DhtValues == {"x", "y"}
NoInfo ==
    [nodeId |-> Absent, region |-> Absent, nodeType |-> Absent, tokenBalance |-> 0,
     nodeTier |-> Absent, directConnection |-> Absent]
DirectInfos ==
    {[address |-> "d1.example", nodeId |-> "d1", region |-> "r1"]}
DirectIds == {i.nodeId : i \in DirectInfos}
NodeInfos == {NoInfo, [NoInfo EXCEPT !.region = "r2"]}
NoFilter == [nodeType |-> Absent, region |-> Absent, minTokens |-> 0, nodeTier |-> Absent]
Filters == {NoFilter, [NoFilter EXCEPT !.region = "r1"]}
RemotePeers ==
    <<DHTNode("p1", "p1.example", "r1", Absent, 0, Absent, FALSE),
      DHTNode("p2", "p2.example", "r2", Absent, 0, Absent, FALSE)>>
FreshIds ==
    SelectSeq(IdPool, LAMBDA id : id \notin NodeIds(nodes) \cup activeConnections \cup closing)
    \o <<Absent, Absent>>
Dials == {<<Absent, Absent>>, <<FreshIds[1], Absent>>, <<FreshIds[1], FreshIds[2]>>}
Unreachable == {NodeIds(SubSeq(nodes, 1, k)) : k \in 0..Len(nodes)}
AllUp == RoutingIds \cup DirectIds

(***************************************************************************)
(* Store specification: the node joins through its two regional addresses  *)
(* (each dial opens or not), stores and looks up one key while a prefix of *)
(* its routing table is unreachable, receives store messages from node_a,  *)
(* loses the connection to node_a and leaves.                              *)
(***************************************************************************)
NextStore ==
    \/ \E opened \in Dials :
          join(opened, {})
    \/ leave(AllUp)
    \/ \E key \in DhtKeys, value \in DhtValues, down \in Unreachable :
          store(key, value, AllUp \ down)
    \/ \E key \in DhtKeys, holders \in {{}, NodeIds(nodes)} :
          findValue(key, AllUp, holders, "y")
    \/ \E key \in DhtKeys :
          handleStore("node_a", key, "y", AllUp)
    \/ handleNodeDisconnection("node_a", FALSE, FALSE)

SpecStore == Init /\ [][NextStore]_vars

(***************************************************************************)
(* C17: store(key, value) on a connected node, with replication factor 3,  *)
(* addresses the store message to exactly the first three nodes of the     *)
(* routing table in table order (all of them when there are fewer) and to  *)
(* no other node: the message is written to each of these that is          *)
(* reachable, and the call succeeds when at most two are unreachable.      *)
(***************************************************************************)
C17_StoreReplication ==
    [][\A key \in DhtKeys, value \in DhtValues, down \in Unreachable :
          (store(key, value, AllUp \ down) /\ connected)
          => LET firstThree == {nodes[i].id : i \in {j \in 1..Len(nodes) : j <= 3}}
                 reached == {id \in firstThree : id \in activeConnections /\ id \notin down}
             IN /\ sent' = {DhtMsg(id, "store", key, value) : id \in reached}
                /\ Cardinality(firstThree \ reached) <= 2 => returned'.ok]_vars

C17_Witness ==
    /\ returned.op = "store" /\ returned.ok
    /\ Len(nodes) = 4
    /\ {e.to : e \in sent} = {nodes[3].id}

(***************************************************************************)
(* C18: after store(key, value) on a connected node, findValue(key)        *)
(* returns that value from the local store without asking any peer, also   *)
(* when no replica was reachable, as long as the key is not overwritten    *)
(* and the node has not left.                                              *)
(***************************************************************************)
C18_LocalReadAfterStore ==
    [][\A key \in DhtKeys :
          /\ \A value \in DhtValues, down \in Unreachable :
                (store(key, value, AllUp \ down) /\ connected)
                => key \in DOMAIN data' /\ data'[key] = value
          /\ \A holders \in {{}, NodeIds(nodes)} :
                (findValue(key, AllUp, holders, "y") /\ connected /\ key \in DOMAIN data)
                => /\ returned' = [op |-> "findValue", ok |-> TRUE, value |-> data[key]]
                   /\ sent' = {}
                   /\ data' = data
          /\ ( /\ key \in DOMAIN data
               /\ key \notin DOMAIN data' \/ data'[key] # data[key] )
             => \/ leave(AllUp)
                \/ \E value \in DhtValues, down \in Unreachable :
                      store(key, value, AllUp \ down)
                \/ handleStore("node_a", key, "y", AllUp)]_vars

C18_Witness ==
    /\ returned = [op |-> "findValue", ok |-> TRUE, value |-> "x"]
    /\ sent = {}
    /\ nodes # <<>>

(***************************************************************************)
(* Peer specification: the node joins (both dials open), connects directly *)
(* to d1, whose info_response names region r2 or no region (the caller     *)
(* names r1), asks for peers with and without a region filter, receives    *)
(* direct_connect messages from node_a and d1,                             *)
(* loses connections, refreshes and leaves.  The wire is not observed.     *)
(***************************************************************************)
Callers == {"node_a", "d1"}

NextPeers ==
    \/ /\ FreshIds[2] # Absent
       /\ join(<<FreshIds[1], FreshIds[2]>>, DirectIds)
    \/ leave(AllUp)
    \/ \E filter \in Filters, up \in {{}, AllUp} :
          getPeers(filter, up, [id \in NodeIds(nodes) |-> RemotePeers])
    \/ \E info \in DirectInfos, opens \in BOOLEAN, nodeInfo \in NodeInfos :
          connectDirectly(info, opens, nodeInfo, Absent, AllUp)
    \/ \E id \in DirectIds :
          disconnectDirect(id)
    \/ \E id \in Callers, local \in BOOLEAN, reopens \in BOOLEAN :
          handleNodeDisconnection(id, local, reopens)
    \/ \E id \in Callers :
          handleDirectConnect(id, AllUp)
    \/ \E stale \in {{}, NodeIds(nodes)}, opened \in {FreshIds[1], Absent} :
          refresh(stale, regionalNodes[1], opened, DirectIds)

SpecPeers == InitQuiet /\ [][NextPeers]_vars

(***************************************************************************)
(* C19: every node returned by getPeers called with a region filter has    *)
(* metadata.region equal to the filter's region, whether it came from the  *)
(* direct-connection table, the routing table or a remote peer list.       *)
(***************************************************************************)
C19_RegionFilterRespected ==
    ( /\ returned.op = "getPeers"
      /\ returned.ok
      /\ returned.filter.region # Absent )
    => \A i \in 1..Len(returned.peers) :
          returned.peers[i].region = returned.filter.region

C19_Witness ==
    /\ returned.op = "getPeers"
    /\ returned.ok
    /\ returned.filter.region = "r1"
    /\ NodeIds(returned.peers) = {"d1", "p1"}
    /\ nodes # <<>>
    /\ NodeHas(directConnections, "node_a")

(***************************************************************************)
(* C20: the routing table and the direct-connection table are disjoint in  *)
(* every reachable state: no node id is in both.                           *)
(***************************************************************************)
C20_TablesDisjoint == NodeIds(nodes) \cap NodeIds(directConnections) = {}

(***************************************************************************)
(* C21: a timeout timer that fires acts only on a task that is still       *)
(* pending: the task becomes failed with the reason that it timed out      *)
(* waiting for acceptance.  When the task is absent or in any other state  *)
(* the task table, the timer table, the reward ledger and the pools stay   *)
(* as they were.                                                           *)
(***************************************************************************)
C21_TimeoutOnlyWhenPending ==
    [][\A t \in timers :
          handleTaskTimeout(t)
          => IF /\ t.taskId \in DOMAIN activeTasks
                /\ activeTasks[t.taskId].status.state = "pending"
             THEN /\ activeTasks'[t.taskId].status.state = "failed"
                  /\ activeTasks'[t.taskId].status.error
                        = "Task timed out waiting for acceptance"
                  /\ \A k \in DOMAIN activeTasks \ {t.taskId} :
                        activeTasks'[k] = activeTasks[k]
             ELSE /\ UNCHANGED <<activeTasks, taskTimeouts, rewardDistributions>>
                  /\ UNCHANGED <<globalValidators, regionalValidators, individualNodes>>]_vars

C21_Witness ==
    \E k \in DOMAIN activeTasks :
        /\ activeTasks[k].status.state = "failed"
        /\ activeTasks[k].status.error = "Task timed out waiting for acceptance"
        /\ activeTasks[k].status.acceptedNodes = <<>>

(***************************************************************************)
(* C22: the first acceptance of a task (no startTime yet) moves its state  *)
(* from pending or assigned to processing and stamps startTime; a later    *)
(* acceptance leaves state and startTime unchanged; every acceptance       *)
(* appends the accepting peer to acceptedNodes and opens a reward-ledger   *)
(* entry for the task if none exists.                                      *)
(***************************************************************************)
C22_FirstAcceptanceStarts ==
    [][\A k \in TaskIds, p \in Workers :
          (TaskAccepted(k, p) /\ k \in DOMAIN activeTasks)
          => LET old == activeTasks[k].status
                 new == activeTasks'[k].status
             IN /\ new.acceptedNodes = Append(old.acceptedNodes, p)
                /\ k \in DOMAIN rewardDistributions'
                /\ k \in DOMAIN rewardDistributions
                       => rewardDistributions'[k] = rewardDistributions[k]
                /\ (~old.startTime /\ old.state \in {"pending", "assigned"})
                       => new.state = "processing" /\ new.startTime
                /\ old.startTime
                       => new.state = old.state /\ new.startTime = old.startTime]_vars

C22_Witness ==
    \E k \in DOMAIN activeTasks :
        /\ activeTasks[k].status.state = "processing"
        /\ activeTasks[k].status.startTime
        /\ Len(activeTasks[k].status.acceptedNodes) = 2
        /\ k \in DOMAIN rewardDistributions

(***************************************************************************)
(* C23: a task is finalized (state completed) when, and only when, the     *)
(* number of completion reports received for it equals                     *)
(* acceptedNodes.length: a task for which as many nodes have reported as   *)
(* are accepted is completed.                                              *)
(***************************************************************************)
C23_FinalizedWhenAllReported ==
    \A k \in DOMAIN activeTasks \cap DOMAIN rewardDistributions :
        ( /\ Len(rewardDistributions[k]) >= 1
          /\ Len(rewardDistributions[k]) = Len(activeTasks[k].status.acceptedNodes) )
        => activeTasks[k].status.state = "completed"

(***************************************************************************)
(* C24: when a regional validator distributes a task to n >= 1 selected    *)
(* eligible nodes, every assignment message carries                        *)
(* reward.perNode = total * (1 - validatorShare / 100) / n.                *)
(***************************************************************************)
C24_AssignmentReward ==
    [][\A m \in RewardTaskMsgs :
          handleTaskAssignment("v2", m, NoSocket)
          => LET assignments == {e \in sent' : e.type = "task_assignment"}
                 n == Cardinality(assignments)
             IN \A e \in assignments :
                   e.amount * 100 * n = m.total * Unit * (100 - m.validatorShare)]_vars

C24_Witness ==
    /\ {e.peer : e \in {a \in sent : a.type = "task_assignment"}} = {"n1", "n2"}
    /\ \A e \in sent : e.type = "task_assignment" => e.amount = 90 * Unit

(***************************************************************************)
(* C25: every node that was sent a task_assignment for a task is recorded  *)
(* in that task's assignedNodes in the task table, also when the send to a *)
(* later node of the same distribution fails.                              *)
(***************************************************************************)
C25_SentAssignmentsRecorded ==
    [][\A m \in RewardTaskMsgs, f \in AssignFailing :
          handleTaskAssignment("v2", m, f)
          => \A e \in sent' :
                e.type = "task_assignment"
                => /\ m.taskId \in DOMAIN activeTasks'
                   /\ Includes(activeTasks'[m.taskId].status.assignedNodes, e.peer)]_vars

(***************************************************************************)
(* Distribution specification: g1 and v1 connect, the individual nodes n1  *)
(* and n2 of v1's region come and go and accept the task.  v1 sends        *)
(* task_assignment for the task as its submitter wrote it, and again for   *)
(* the task as it stands in the table after an earlier distribution.       *)
(***************************************************************************)
Redistributed(m) ==
    IF m.taskId \in DOMAIN activeTasks
    THEN [x \in DOMAIN m \cup {"status"} |->
             IF x = "status" THEN activeTasks[m.taskId].status ELSE m[x]]
    ELSE m

NextAssign ==
    \/ \E i \in 1..Len(ValidatorJoins) :
          /\ Len(peers) = i - 1
          /\ handleJoin(ValidatorJoins[i][1], ValidatorJoins[i][2], NoSocket)
          /\ ServerOnly
    \/ \E j \in WorkerJoins :
          /\ Len(peers) >= Len(ValidatorJoins)
          /\ handleJoin(j[1], j[2], NoSocket)
          /\ ServerOnly
    \/ \E ws \in WorkerSockets, p \in Workers :
          /\ Leave(ws, p, NoSocket)
          /\ ServerOnly
    \/ \E m \in TaskMsgs :
          /\ handleTaskAssignment("v1", m, NoSocket)
          /\ ServerOnly
    \/ \E m \in TaskMsgs :
          /\ m.taskId \in DOMAIN activeTasks
          /\ Len(activeTasks[m.taskId].status.assignedNodes) <= MaxAssigned
          /\ handleTaskAssignment("v1", Redistributed(m), NoSocket)
          /\ ServerOnly
    \/ \E k \in TaskIds, p \in Workers :
          /\ TaskAccepted(k, p)
          /\ ServerOnly

SpecAssign == InitQuiet /\ [][NextAssign]_vars

(***************************************************************************)
(* C26: after any sequence of regional distributions, the number of        *)
(* entries in a task's assignedNodes never exceeds the task's              *)
(* requirements.maxNodes.                                                  *)
(***************************************************************************)
C26_AssignedWithinMaxNodes ==
    \A k \in DOMAIN activeTasks :
        Len(activeTasks[k].status.assignedNodes) <= activeTasks[k].maxNodes

(***************************************************************************)
(* Penalty specification: g1, v1 and the nodes n1 and n2 connect; g1       *)
(* broadcasts a task with penalty rate 0, 1 or 2 and estimated duration    *)
(* 60; the nodes accept and report after 30 to 150 seconds.                *)
(***************************************************************************)
PenaltyRates == {0, 1, 2}
PenaltyTaskMsgs ==
    {[TaskMsg("t1", "train", "training", 200, 90, 10, 60, 2) EXCEPT !.penaltyRate = r] :
        r \in PenaltyRates}
ReportDurations == {30, 60, 90, 120, 150}

NextPenalty ==
    \/ \E i \in 1..Len(ValidatorJoins) :
          /\ Len(peers) = i - 1
          /\ handleJoin(ValidatorJoins[i][1], ValidatorJoins[i][2], NoSocket)
          /\ ServerOnly
    \/ \E j \in WorkerJoins :
          /\ Len(peers) >= Len(ValidatorJoins)
          /\ handleJoin(j[1], j[2], NoSocket)
          /\ ServerOnly
    \/ \E m \in PenaltyTaskMsgs :
          /\ handleTaskBroadcast("g1", m, NoSocket)
          /\ ServerOnly
    \/ \E k \in TaskIds, p \in Workers :
          /\ TaskAccepted(k, p)
          /\ ServerOnly
    \/ \E k \in TaskIds, p \in Workers, d \in ReportDurations :
          /\ handleTaskCompletion(k, p, d, NoSocket)
          /\ ServerOnly

SpecPenalty == Init /\ [][NextPenalty]_vars

\* the reward a completion step recorded for peer p of task k: the ledger
\* entry, or after finalization the amount of the reward message
Recorded(k, p) ==
    IF k \in DOMAIN rewardDistributions'
    THEN {e.amount : e \in {x \in Elems(rewardDistributions'[k]) : x.peerId = p}}
    ELSE {e.amount : e \in {x \in sent' : x.type = "reward_distribution" /\ x.peer = p}}

(***************************************************************************)
(* C27: the reward recorded for a completing node is the per-node reward   *)
(* when the time elapsed since startTime does not exceed                   *)
(* estimatedDuration, and otherwise                                        *)
(* perNode * (1 - min(1, overrun_ratio * penaltyRate)); it is never        *)
(* negative and never greater than the per-node reward.                    *)
(***************************************************************************)
C27_LatePenalty ==
    [][\A k \in TaskIds, p \in Workers, d \in ReportDurations :
          ( /\ handleTaskCompletion(k, p, d, NoSocket)
            /\ k \in DOMAIN activeTasks /\ k \in DOMAIN rewardDistributions
            /\ activeTasks[k].status.startTime
            /\ Has(peers, p) )
          => LET task == activeTasks[k]
                 est == task.estimatedDuration
                 perNode == task.perNode * Unit
                 over == (d - est) * task.penaltyRate
                 capped == IF over > est THEN est ELSE over
             IN \A amount \in Recorded(k, p) :
                   /\ d <= est => amount = perNode
                   /\ d > est => amount * est = perNode * (est - capped)
                   /\ 0 <= amount /\ amount <= perNode]_vars

C27_Witness ==
    \E k \in DOMAIN rewardDistributions :
        \E i \in 1..Len(rewardDistributions[k]) :
            /\ rewardDistributions[k][i].amount = 45 * Unit
            /\ activeTasks[k].penaltyRate = 1

(***************************************************************************)
(* C28: retryTask changes nothing unless the task exists and is in state   *)
(* failed; on a failed task it resets the status to pending with empty     *)
(* assignedNodes and acceptedNodes, resubmits the task through             *)
(* broadcastTask, and leaves exactly one timeout timer armed for it.       *)
(***************************************************************************)
C28_RetryResetsFailedTask ==
    [][\A k \in TaskIds, f \in Failing :
          retryTask(k, f)
          => IF k \in DOMAIN activeTasks /\ activeTasks[k].status.state = "failed"
             THEN /\ activeTasks'[k].status.state = "pending"
                  /\ activeTasks'[k].status.assignedNodes = <<>>
                  /\ activeTasks'[k].status.acceptedNodes = <<>>
                  /\ Cardinality(TimersOf(timers', k)) = 1
             ELSE UNCHANGED <<activeTasks, taskTimeouts, timers, rewardDistributions>>]_vars

(***************************************************************************)
(* C29: after a leave message, a disconnect or an inactivity removal of a  *)
(* registered peer, that peer id is absent from the peer registry, from    *)
(* the peer set and validator set of every region, and from every          *)
(* task-engine pool, also when the peer had joined more than once with     *)
(* different regions or node types.                                        *)
(***************************************************************************)
Departed(p) ==
    /\ ~Has(peers, p)
    /\ \A r \in Regions : p \notin regions[r].peers /\ p \notin regions[r].validators
    /\ PoolsHolding(p) = {}

C29_DepartedPeerIsGone ==
    [][\A p \in RegPeers :
          (/\ Has(peers, p)
           /\ \/ \E ws \in RegSockets : Leave(ws, p, NoSocket)
              \/ \E ws \in RegSockets :
                    /\ findPeerByWebSocket(ws) # <<>>
                    /\ findPeerByWebSocket(ws)[1].peerId = p
                    /\ handleDisconnection(ws, NoSocket)
              \/ cleanupInactivePeers(p, NoSocket))
          => Departed(p)']_vars

(***************************************************************************)
(* C30: when a connection closes, every peer that was registered through   *)
(* that connection is destroyed: no peer whose connection handle is the    *)
(* closed socket remains in the peer registry afterwards, including when   *)
(* several peer ids joined over the same connection.                       *)
(***************************************************************************)
C30_ClosedConnectionLeavesNoPeer ==
    [][\A ws \in RegSockets :
          handleDisconnection(ws, NoSocket)
          => \A i \in 1..Len(peers') : peers'[i].ws # ws]_vars

(***************************************************************************)
(* Request specification: the node joins once through its two regional     *)
(* addresses, leaves up to MaxRequests findValue or store requests         *)
(* outstanding on the connections to node_a and node_b, and receives on    *)
(* those connections the peers' responses, store and getPeers requests of  *)
(* the peers' own, request timeouts and the loss of a connection.          *)
(***************************************************************************)
RequestPeers == {"node_a", "node_b"}
RequestTypes == {"findValue", "store"}

NextRequest ==
    \/ /\ ~connected
       /\ join(<<"node_a", "node_b">>, {})
    \/ \E id \in RequestPeers, type \in RequestTypes :
          sendRequest(id, type, AllUp)
    \/ \E id \in RequestPeers, i \in 1..MaxRequests :
          responseEvent(id, i)
    \/ \E i \in 1..MaxRequests :
          messageTimeout(i)
    \/ \E id \in RequestPeers, key \in DhtKeys :
          handleStore(id, key, "y", AllUp)
    \/ \E id \in RequestPeers :
          handleGetPeers(id, NoFilter, AllUp, [n \in NodeIds(nodes) |-> RemotePeers])
    \/ \E id \in RequestPeers :
          handleNodeDisconnection(id, FALSE, FALSE)

SpecRequest == Init /\ [][NextRequest]_vars

(***************************************************************************)
(* C31: every outbound DHT request is settled exactly once: a settled      *)
(* request never changes its outcome, and a pending request is resolved    *)
(* only by the inbound message that is the peer's response to that very    *)
(* request, not by a request of the peer's own and not by the response to  *)
(* another request outstanding on the same connection.                     *)
(***************************************************************************)
C31_ResolvedByOwnResponse ==
    [][\A i \in 1..Len(requests) :
          /\ requests[i].state # "pending"
                => /\ requests'[i].state = requests[i].state
                   /\ requests'[i].response = requests[i].response
          /\ requests[i].state = "pending" /\ requests'[i].state = "resolved"
                => requests'[i].re = i]_vars

(***************************************************************************)
(* C32: peer-list flooding has depth 1: handling an inbound getPeers       *)
(* request puts no getPeers query on the wire, so a getPeers call among    *)
(* nodes connected to each other terminates.                               *)
(***************************************************************************)
C32_FloodingDepthOne ==
    [][\A id \in RequestPeers :
          handleGetPeers(id, NoFilter, AllUp, [n \in NodeIds(nodes) |-> RemotePeers])
          => \A m \in sent' : m.type # "getPeers"]_vars

(***************************************************************************)
(* C33: after leave() completes, and as long as no other call has been     *)
(* made since, the node is not connected and its routing table, its local  *)
(* key-value store and its active-connection table are empty: no           *)
(* connection is opened or re-established.                                 *)
(***************************************************************************)
C33_LeftNodeStaysEmpty ==
    returned.op = "leave"
    => /\ ~connected
       /\ nodes = <<>>
       /\ data = EmptyMap
       /\ activeConnections = {}

(***************************************************************************)
(* Reconnection specification: the peer specification without getPeers    *)
(* and the refresh timer.  The node joins, pins d1, receives               *)
(* direct_connect messages from node_a and d1, unpins d1, leaves, and the  *)
(* sockets of node_a and d1 close, closed by the peer or by this node,     *)
(* the reconnection succeeding or not.                                     *)
(***************************************************************************)
NextReconnect ==
    \/ /\ FreshIds[2] # Absent
       /\ join(<<FreshIds[1], FreshIds[2]>>, DirectIds)
    \/ leave(AllUp)
    \/ \E info \in DirectInfos, opens \in BOOLEAN, nodeInfo \in NodeInfos :
          connectDirectly(info, opens, nodeInfo, Absent, AllUp)
    \/ \E id \in DirectIds :
          disconnectDirect(id)
    \/ \E id \in Callers, local \in BOOLEAN, reopens \in BOOLEAN :
          handleNodeDisconnection(id, local, reopens)
    \/ \E id \in Callers :
          handleDirectConnect(id, AllUp)

SpecReconnect == InitQuiet /\ [][NextReconnect]_vars

(***************************************************************************)
(* C34: when the connection of a tracked DHT node closes, the node is      *)
(* removed from the routing table; a pinned direct connection is           *)
(* reconnected, stays pinned with an active connection when the            *)
(* reconnection succeeds and is removed from the direct-connection table   *)
(* only when it fails; a node that is not pinned gets no connection and    *)
(* the direct-connection table is left alone.                              *)
(***************************************************************************)
C34_PinnedNodeReconnects ==
    [][\A id \in Callers, local \in BOOLEAN, reopens \in BOOLEAN :
          handleNodeDisconnection(id, local, reopens)
          => /\ ~NodeHas(nodes', id)
             /\ IF NodeHas(directConnections, id)
                THEN IF reopens
                     THEN /\ directConnections' = directConnections
                          /\ id \in activeConnections'
                     ELSE /\ directConnections' = NodeDelete(directConnections, {id})
                          /\ id \notin activeConnections'
                ELSE /\ directConnections' = directConnections
                     /\ id \notin activeConnections']_vars

\* d1 is pinned and connected although leave() was the last call: the close
\* event of its socket has been handled and the reconnection succeeded
C34_Witness ==
    /\ returned.op = "leave"
    /\ NodeHas(directConnections, "d1")
    /\ "d1" \in activeConnections
    /\ "d1" \notin closing

(***************************************************************************)
(* C35: each health check sets a global validator's responsiveness to 100  *)
(* when the liveness probe succeeds, and when the probe fails lowers it by *)
(* 20, never below 0, and appends an issue; the responsiveness of every    *)
(* health record is within 0..100 in every reachable state.                *)
(***************************************************************************)
C35_ResponsivenessBounded ==
    /\ [](\A n \in DOMAIN healthMetrics : healthMetrics[n].responsiveness \in 0..100)
    /\ [][\A n \in CoordIds : \A ok \in ProbeOutcomes(n) :
             checkGlobalNodesHealth(n, ok, NoSocket)
             => LET old == IF n \in DOMAIN healthMetrics THEN healthMetrics[n]
                           ELSE initializeHealthMetrics
                    new == healthMetrics'[n]
                IN IF ok
                   THEN /\ new.responsiveness = 100
                        /\ new.issues = old.issues
                   ELSE /\ new.responsiveness =
                              (IF old.responsiveness >= 20
                               THEN old.responsiveness - 20 ELSE 0)
                        /\ new.issues = Append(old.issues, "Node not responding to ping")]_vars

\* six probes of g1 have failed and its responsiveness is at the floor
C35_Witness ==
    /\ "g1" \in DOMAIN healthMetrics
    /\ healthMetrics["g1"].responsiveness = 0
    /\ healthMetrics["g1"].issues = [i \in 1..6 |-> "Node not responding to ping"]

(***************************************************************************)
(* C36: failover chooses as backup the first global validator other than   *)
(* the failed one whose current health status is active, so every failover *)
(* record has backupNodeId different from failedNodeId; when no such       *)
(* validator exists the failover aborts: no record is appended, no task is *)
(* reassigned and no failover event is broadcast.                          *)
(***************************************************************************)
ActiveOthers(n) ==
    SelectSeq(globalNodes, LAMBDA node :
        /\ node.peerId # n
        /\ node.peerId \in DOMAIN healthMetrics
        /\ healthMetrics[node.peerId].status = "active")

C36_FailoverBackupChoice ==
    /\ [](\A i \in 1..Len(failoverHistory) :
             failoverHistory[i].backupNodeId # failoverHistory[i].failedNodeId)
    /\ [][\A n \in CoordIds :
             Has(globalNodes, n) /\ removeGlobalNode(n, NoSocket)
             => IF ActiveOthers(n) = <<>>
                THEN /\ failoverHistory' = failoverHistory
                     /\ \A m \in sent' :
                           m.type \notin {"task_reassignment", "global_node_failover"}
                ELSE /\ Len(failoverHistory') = Len(failoverHistory) + 1
                     /\ failoverHistory'[Len(failoverHistory')].failedNodeId = n
                     /\ failoverHistory'[Len(failoverHistory')].backupNodeId =
                           ActiveOthers(n)[1].peerId]_vars

\* a validator was removed while two others were active: the record names
\* one backup and the failover event is on the wire
C36_Witness ==
    /\ Len(failoverHistory) = 1
    /\ Len(globalNodes) = 2
    /\ \A i \in 1..2 : isNodeHealthy(healthMetrics, globalNodes[i].peerId)
    /\ \E m \in sent : m.type = "global_node_failover"

\* a validator was removed while no other validator was active
C36_AbortWitness ==
    /\ failoverHistory = <<>>
    /\ Len(globalNodes) = 1
    /\ ~isNodeHealthy(healthMetrics, globalNodes[1].peerId)
    /\ sent = {}
    /\ \E n \in CoordIds : ~Has(globalNodes, n) /\ n \notin DOMAIN healthMetrics

(***************************************************************************)
(* Reassignment specification: the coordinator over a task table that     *)
(* holds t1, attributed to g1, and t2, attributed to g2 (the class leaves  *)
(* filling its task table to the task tracking system).  The three global  *)
(* validators are added and removed, the health check finds g3 failing,    *)
(* and during a removal of g1 the send on g2's socket may fail.            *)
(***************************************************************************)
TrackedTasks ==
    <<[taskId |-> "t1", globalValidator |-> "g1"],
      [taskId |-> "t2", globalValidator |-> "g2"]>>
ReassignFailing == {NoSocket, "w2"}

InitReassign == ConstructedWith(TrackedTasks) /\ wire = TRUE

NextReassign ==
    \/ \E p \in CoordPeers :
          /\ addGlobalNode(p, NoSocket)
          /\ CoordinatorOnly
    \/ \E n \in CoordIds :
          /\ removeGlobalNode(n, NoSocket)
          /\ CoordinatorOnly
    \/ /\ removeGlobalNode("g1", "w2")
       /\ CoordinatorOnly
    \/ /\ checkGlobalNodesHealth("g3", TRUE, NoSocket)
       /\ CoordinatorOnly

SpecReassign == InitReassign /\ [][NextReassign]_vars

TimerFires == \E t \in timers : handleTaskTimeout(t) /\ ServerOnly

SpecTaskLive == InitQuiet /\ [][NextTask]_vars /\ WF_vars(TimerFires)

(***************************************************************************)
(* C39: a processing task does not stay processing forever once nothing    *)
(* more is awaited from its nodes: when every node still in acceptedNodes  *)
(* has reported completion, the task eventually reaches state completed or *)
(* failed.                                                                 *)
(***************************************************************************)
NothingAwaited(k) ==
    /\ k \in DOMAIN activeTasks
    /\ activeTasks[k].status.state = "processing"
    /\ activeTasks[k].status.acceptedNodes # <<>>
    /\ k \in DOMAIN rewardDistributions
    /\ \A p \in Elems(activeTasks[k].status.acceptedNodes) :
          \E e \in Elems(rewardDistributions[k]) : e.peerId = p

C39_ProcessingTaskEnds ==
    \A k \in TaskIds :
        NothingAwaited(k)
        ~> (k \notin DOMAIN activeTasks
            \/ activeTasks[k].status.state \in {"completed", "failed"})

(***************************************************************************)
(* C40: at most one timeout timer is armed per task id at any time, and it *)
(* is the one whose handle the timer table holds for the task: a repeated  *)
(* broadcast of an active task id leaves no earlier timer armed.           *)
(***************************************************************************)
C40_OneTimerPerTask ==
    /\ \A k \in TaskIds : Cardinality(TimersOf(timers, k)) <= 1
    /\ \A t \in timers :
          t.taskId \in DOMAIN taskTimeouts /\ taskTimeouts[t.taskId] = t.id

====
